---------------------------- MODULE Spec2Model ----------------------------
(***************************************************************************)
(* rustwhiteboard: stroke simplification and normalisation (canvas.rs),    *)
(* stroke-to-shape recognition and diagram classification (shapes.rs),     *)
(* the mxCell elements of the draw.io export (drawio.rs) and the commands  *)
(* that share AppState (main.rs).                                          *)
(*                                                                         *)
(* Numbers.  An f64 is modelled as an extended rational [n, d]:            *)
(*   d > 0   the finite value n/d, in lowest terms;                        *)
(*   d = 0   n = 1: +inf, n = -1: -inf, n = 0: NaN.                        *)
(* + - * / and the comparisons are exact; a finite result whose magnitude  *)
(* exceeds F64_MAX becomes an infinity, as f64 arithmetic overflows.       *)
(* sqrt is rounded down to a multiple of 1/SCALE.  Rounding of the last    *)
(* bit of the mantissa and the sign of zero are not modelled.              *)
(*                                                                         *)
(* shapes.rs computes with square roots and angles throughout; there an    *)
(* f64 is modelled in fixed point, as the integer number of 1/SCALE units  *)
(* (0.85 is 850, an angle of pi radians is 3142), every operation rounding *)
(* towards zero.  The width and the height of calculate_bounds are rounded *)
(* as f64 rounds a difference: to the nearest value with a significand of  *)
(* SIGNIFICAND steps, ties to even.                                        *)
(*                                                                         *)
(* classify_diagram computes its confidence in exact rationals.  A string  *)
(* it searches is a sequence of one-character strings.                     *)
(*                                                                         *)
(* drawio.rs is given whole-numbered coordinates, kept as integers.  The   *)
(* commands of main.rs are tasks that interleave at mutex acquisitions;    *)
(* the vectors behind the mutexes are abstracted to the number of the call *)
(* that stored them.                                                       *)
(***************************************************************************)
EXTENDS Integers, Sequences, FiniteSets, TLC

\* ------------------------------------------------------------------ bounds
\* x coordinates of the simplifier's input points are drawn from 0..MaxCoord.
MaxCoord == 1
\* Longest point sequence handed to simplify_stroke.
MaxLen == 4
\* Depth of the call stack at which the process aborts (stack overflow).
StackLimit == 6
\* Longest stroke list handed to calculate_bounding_box and normalize_strokes.
MaxStrokes == 2
\* Longest stroke list handed to detect_shapes.
MaxDetect == 2
\* Longest point sequence handed to calculate_bounds on its own.
MaxBoundsLen == 2
\* Longest list of shapes of every kind handed to classify_diagram.
MaxShapes == 3
\* Number of tasks that run commands of main.rs concurrently.
NumTasks == 2
\* Number of process_canvas calls that get as far as locking strokes.
MaxCanvasCalls == 2
\* Largest number of strokes in AppState.
MaxAppStrokes == 1
\* x coordinates of the points handed to the distance functions on their own
\* are drawn from 0..MaxDistanceCoord.
MaxDistanceCoord == 2
\* Longest list of shapes handed to generate_xml.
MaxDrawioShapes == 3

\* --------------------------------------------------------------- constants
\* Stands for f64::MAX (and -F64_MAX for f64::MIN): larger than every finite
\* value the model computes; F64_MAX + F64_MAX overflows to +inf.
F64_MAX == 100000
\* Resolution of sqrt: results are multiples of 1/SCALE.
SCALE == 1000

VARIABLES
    sp_points,   \* simplify_stroke: the argument `points`
    sp_epsilon,  \* simplify_stroke: the argument `epsilon`
    sp_stack,    \* call stack of douglas_peucker activations
    sp_ret,      \* value being returned to the caller, or NoRet
    sp_result,   \* value returned by simplify_stroke (indices into points)
    sp_pc,       \* "off", "idle", "run", "done", "overflow"
    nz_strokes,  \* the argument `strokes` of the canvas.rs functions
    nz_target,   \* normalize_strokes: target_width, target_height, padding
    nz_bbox,     \* value returned by calculate_bounding_box
    nz_out,      \* value returned by normalize_strokes
    nz_pc,       \* "off", "idle", "bbox", "normalized"
    sh_strokes,  \* detect_shapes: the argument `strokes`
    sh_i,        \* detect_shapes: number of strokes the loop has visited
    sh_shapes,   \* detect_shapes: the vector `shapes`, then the value returned
    sh_uuid,     \* number of uuids drawn so far
    sh_pc,       \* "off", "loop", "done"
    cb_points,   \* calculate_bounds: the argument `points`
    cb_bounds,   \* calculate_bounds: the value returned
    cb_pc,       \* "off", "idle", "done"
    cd_shapes,   \* classify_diagram: the argument `shapes`
    cd_texts,    \* classify_diagram: the argument `text_regions`
    cd_result,   \* classify_diagram: the value returned
    cd_pc,       \* "off", "idle", "done"
    rs_points,   \* simplify_stroke applied twice: the argument `points`
    rs_epsilon,  \* simplify_stroke applied twice: the argument `epsilon`
    rs_once,     \* value returned by simplify_stroke(points, epsilon)
    rs_twice,    \* value returned by simplify_stroke on that value
    rs_pc,       \* "off", "idle", "once", "twice", "overflow"
    pd_point,    \* the two distance functions: the argument `point`
    pd_line_start,\* the two distance functions: the argument `line_start`
    pd_line_end, \* the two distance functions: the argument `line_end`
    pd_canvas,   \* value returned by perpendicular_distance (canvas.rs)
    pd_shapes,   \* value returned by point_to_line_distance (shapes.rs)
    pd_pc,       \* "off", "idle", "done"
    ap_pc,       \* the commands of main.rs: where every task is in its command
    ap_owner,    \* the task that holds each mutex of AppState, or Free
    ap_strokes,  \* AppState.strokes: the number of strokes
    ap_shapes,   \* AppState.detected_shapes: the process_canvas call that stored it, or 0
    ap_text,     \* AppState.ocr_text: the process_canvas call that stored it, or 0
    ap_llm,      \* AppState.llm_config
    ap_calls,    \* number of process_canvas calls that have locked strokes
    ap_seen,     \* enhance_with_llm: its clones of detected_shapes and ocr_text
    dx_shapes,   \* generate_xml: the shapes
    dx_text,     \* generate_xml: the text regions
    dx_xml,      \* generate_xml: the mxCell elements written, in order
    dx_pc        \* "off", "idle" or "done"

sp_vars == <<sp_points, sp_epsilon, sp_stack, sp_ret, sp_result, sp_pc>>
nz_vars == <<nz_strokes, nz_target, nz_bbox, nz_out, nz_pc>>
sh_vars == <<sh_strokes, sh_i, sh_shapes, sh_uuid, sh_pc>>
cb_vars == <<cb_points, cb_bounds, cb_pc>>
cd_vars == <<cd_shapes, cd_texts, cd_result, cd_pc>>
rs_vars == <<rs_points, rs_epsilon, rs_once, rs_twice, rs_pc>>
pd_vars == <<pd_point, pd_line_start, pd_line_end, pd_canvas, pd_shapes, pd_pc>>
ap_vars == <<ap_pc, ap_owner, ap_strokes, ap_shapes, ap_text, ap_llm, ap_calls, ap_seen>>
dx_vars == <<dx_shapes, dx_text, dx_xml, dx_pc>>
vars == <<sp_vars, nz_vars, sh_vars, cb_vars, cd_vars, rs_vars, pd_vars, ap_vars, dx_vars>>

\* ------------------------------------------------------------- arithmetic
Abs(i) == IF i < 0 THEN -i ELSE i
Sign(i) == IF i < 0 THEN -1 ELSE IF i > 0 THEN 1 ELSE 0

RECURSIVE Gcd(_, _)
Gcd(a, b) == IF b = 0 THEN a ELSE Gcd(b, a % b)

\* The f64 with value n/d (d may be 0 or negative on entry).
Rat(n, d) ==
    IF d = 0 THEN [n |-> Sign(n), d |-> 0]
    ELSE LET s == IF d < 0 THEN -1 ELSE 1
             g == Gcd(Abs(n), Abs(d))
             nn == (s * n) \div g
             dd == (s * d) \div g
         IN  IF Abs(nn) > F64_MAX * dd
             THEN [n |-> Sign(nn), d |-> 0]
             ELSE [n |-> nn, d |-> dd]

F(i) == Rat(i, 1)
NaN == [n |-> 0, d |-> 0]
IsNaN(a) == a.d = 0 /\ a.n = 0
IsFinite(a) == a.d > 0

RNeg(a) == [n |-> -a.n, d |-> a.d]
RAdd(a, b) ==
    IF a.d = 0 /\ b.d = 0
    THEN (IF a.n = b.n THEN a ELSE NaN)
    ELSE Rat(a.n * b.d + b.n * a.d, a.d * b.d)
RSub(a, b) == RAdd(a, RNeg(b))
RMul(a, b) == Rat(a.n * b.n, a.d * b.d)
RDiv(a, b) ==
    IF b.n < 0 THEN Rat(-(a.n * b.d), a.d * (-b.n))
    ELSE Rat(a.n * b.d, a.d * b.n)
\* a == b, a < b, ... as f64 compares: every comparison with NaN is false.
REq(a, b) == ~IsNaN(a) /\ ~IsNaN(b) /\ a = b
RLt(a, b) ==
    /\ ~IsNaN(a) /\ ~IsNaN(b) /\ a # b
    /\ IF a.d = 0 THEN a.n < 0
       ELSE IF b.d = 0 THEN b.n > 0
       ELSE a.n * b.d < b.n * a.d
RGt(a, b) == RLt(b, a)
RLe(a, b) == RLt(a, b) \/ REq(a, b)
RGe(a, b) == RLe(b, a)
\* f64::min / f64::max: a NaN operand is ignored.
RMin(a, b) == IF IsNaN(a) THEN b ELSE IF IsNaN(b) THEN a
              ELSE IF RLt(b, a) THEN b ELSE a
RMax(a, b) == IF IsNaN(a) THEN b ELSE IF IsNaN(b) THEN a
              ELSE IF RGt(b, a) THEN b ELSE a
\* f64::clamp(lo, hi)
RClamp(a, lo, hi) == IF RLt(a, lo) THEN lo ELSE IF RGt(a, hi) THEN hi ELSE a
\* f64::powi(2)
RSq(a) == RMul(a, a)

\* Largest r with r * r <= k.
RECURSIVE ISqrtIn(_, _, _)
ISqrtIn(k, lo, hi) ==
    IF lo = hi THEN lo
    ELSE LET mid == (lo + hi + 1) \div 2
         IN  IF mid * mid <= k THEN ISqrtIn(k, mid, hi) ELSE ISqrtIn(k, lo, mid - 1)
ISqrt(k) == ISqrtIn(k, 0, IF k < 46340 THEN k ELSE 46340)

\* f64::sqrt
RSqrt(a) ==
    IF a.d = 0 THEN (IF a.n = 1 THEN a ELSE NaN)
    ELSE IF a.n < 0 THEN NaN
    ELSE Rat(ISqrt((a.n * SCALE * SCALE) \div a.d), SCALE)

\* ------------------------------------------------- fixed-point arithmetic
\* The fixed-point value of a finite f64.
FxOf(a) == (a.n * SCALE) \div a.d
Max2(a, b) == IF a >= b THEN a ELSE b
Min2(a, b) == IF a <= b THEN a ELSE b

\* a * b
FMul(a, b) ==
    LET ah == Abs(a) \div SCALE
        al == Abs(a) % SCALE
        bh == Abs(b) \div SCALE
        bl == Abs(b) % SCALE
    IN  Sign(a) * Sign(b) * (ah * bh * SCALE + ah * bl + al * bh + (al * bl) \div SCALE)

\* a / b, for b # 0
FDiv(a, b) ==
    LET q == Abs(a) \div Abs(b)
        r == Abs(a) % Abs(b)
        frac == IF r <= 2000000 THEN (r * SCALE) \div Abs(b)
                ELSE ((r \div SCALE) * SCALE) \div (Abs(b) \div SCALE)
    IN  Sign(a) * Sign(b) * (q * SCALE + frac)

\* f64::sqrt, for a >= 0
FSqrt(a) ==
    IF a <= 2000000 THEN ISqrt(a * SCALE)
    ELSE IF a <= 200000000 THEN ISqrt(a * 10) * 10
    ELSE ISqrt(a \div 10) * 100

\* f64::powi(2)
FSq(a) == FMul(a, a)

\* sqrt(dx^2 + dy^2)
FHypot(dx, dy) == FSqrt(FSq(dx) + FSq(dy))

\* std::f64::consts::PI and its fractions
\* An f64 sum or difference is rounded to the nearest value with a significand
\* of 53 bits, ties to the even significand. The model keeps 20 bits, so the
\* integers below SIGNIFICAND (the coordinates up to 1048.575) are exact.
SIGNIFICAND == 1048576
RECURSIVE Spacing(_, _)
Spacing(a, step) == IF a \div step < SIGNIFICAND THEN step ELSE Spacing(a, 2 * step)
RoundToStep(a, step) ==
    IF 2 * (a % step) < step \/ (2 * (a % step) = step /\ (a \div step) % 2 = 0)
    THEN (a \div step) * step
    ELSE (a \div step + 1) * step
RoundF(v) == Sign(v) * RoundToStep(Abs(v), Spacing(Abs(v), 1))

PI == 3142
HALF_PI == 1571
PI_6 == 524

\* atan(t) for 0 <= t <= 1: (pi/4) t + t (1 - t) (0.2447 + 0.0663 t), which is
\* within 0.004 of the arc tangent.
AtanUnit(t) ==
    (7854 * t) \div 10000
    + (((t * (SCALE - t)) \div SCALE) * (2447 + (663 * t) \div SCALE)) \div 10000

\* atan(ay / ax) for ax, ay >= 0 that are not both 0, in [0, pi/2]
AtanOctant(ay, ax) ==
    IF ax >= ay THEN AtanUnit(FDiv(ay, ax)) ELSE HALF_PI - AtanUnit(FDiv(ax, ay))

\* The angle of (x, y), of which base is the angle of (|x|, |y|).
AtanQuadrant(y, x, base) ==
    IF y < 0 THEN (IF x >= 0 THEN -base ELSE base - PI)
    ELSE (IF x >= 0 THEN base ELSE PI - base)

\* f64::atan2: y.atan2(x), in (-pi, pi]
Atan2(y, x) ==
    IF x = 0 /\ y = 0 THEN 0 ELSE AtanQuadrant(y, x, AtanOctant(Abs(y), Abs(x)))

\* ---------------------------------------------------------------- canvas.rs
Pt(x, y) == [x |-> x, y |-> y]

\* Distance from `point` to the nearest point of the chord line_start..line_end.
\* The coordinates are integers; t and the nearest point are kept exactly, as
\* numerators over the denominator length_sq:
\*   t = t_num / length_sq,  nearest_x = nx / length_sq,  nearest_y = ny / length_sq.
perpendicular_distance(point, line_start, line_end) ==
    LET dx == line_end.x - line_start.x
        dy == line_end.y - line_start.y
        length_sq == dx * dx + dy * dy
        t0 == (point.x - line_start.x) * dx + (point.y - line_start.y) * dy
        t_num == IF t0 < 0 THEN 0 ELSE IF t0 > length_sq THEN length_sq ELSE t0
        nx == line_start.x * length_sq + t_num * dx
        ny == line_start.y * length_sq + t_num * dy
        ex == point.x * length_sq - nx
        ey == point.y * length_sq - ny
    IN  IF length_sq = 0
        THEN RSqrt(F((point.x - line_start.x) * (point.x - line_start.x)
                     + (point.y - line_start.y) * (point.y - line_start.y)))
        ELSE RSqrt(Rat(ex * ex + ey * ey, length_sq * length_sq))

\* The loop of douglas_peucker over the interior points of the slice
\* points[lo..hi] (1-based, inclusive); i, max_index are 0-based slice indices.
RECURSIVE MaxScan(_, _, _, _, _, _)
MaxScan(points, lo, hi, i, max_distance, max_index) ==
    IF i > (hi - lo) - 1 THEN [max_distance |-> max_distance, max_index |-> max_index]
    ELSE LET distance == perpendicular_distance(points[lo + i], points[lo], points[hi])
         IN  IF RGt(distance, max_distance)
             THEN MaxScan(points, lo, hi, i + 1, distance, i)
             ELSE MaxScan(points, lo, hi, i + 1, max_distance, max_index)

\* The scan that leaves out the first interior point.
FarthestAfterFirst(points, lo, hi) == MaxScan(points, lo, hi, 2, F(0), 0)

FarthestPoint(points, lo, hi) == MaxScan(points, lo, hi, 1, F(0), 0)

\* A vector of cloned points is kept as the sequence of the input positions the
\* clones were taken from.
Range(lo, hi) == [k \in 1..(hi - lo + 1) |-> lo + k - 1]
Pop(s) == IF Len(s) = 0 THEN s ELSE SubSeq(s, 1, Len(s) - 1)
PointsAt(points, idx) == [k \in 1..Len(idx) |-> points[idx[k]]]

\* vec![start.clone(), end.clone()]: the slice collapsed to its two end points.
CollapseDropsEnd(lo, hi) == <<lo>>
Collapse(lo, hi) == <<lo, hi>>

\* left.pop(); left.extend(right); left
JoinDropsJunction(left, right) == Pop(left) \o Tail(right)
JoinKeepsJunction(left, right) == left \o right
Join(left, right) == Pop(left) \o right

NoRet == [some |-> FALSE, v |-> <<>>]
Ret(v) == [some |-> TRUE, v |-> v]

\* One activation of douglas_peucker on the slice points[lo..hi].
Frame(lo, hi) == [lo |-> lo, hi |-> hi, at |-> "entry", max_index |-> 0, left |-> <<>>]
Top == sp_stack[Len(sp_stack)]
SetTop(f) == [sp_stack EXCEPT ![Len(sp_stack)] = f]
SliceLen(f) == f.hi - f.lo + 1

\* Calling douglas_peucker: a new activation, or the abort of the process when
\* the call stack is exhausted.
PushFrame(stack, f) ==
    IF Len(stack) >= StackLimit
    THEN /\ sp_pc' = "overflow"
         /\ sp_stack' = stack
    ELSE /\ sp_pc' = "run"
         /\ sp_stack' = Append(stack, f)

\* simplify_stroke, up to its call of douglas_peucker.
SimplifyCall ==
    /\ sp_pc = "idle"
    /\ IF Len(sp_points) < 3
       THEN /\ sp_result' = Range(1, Len(sp_points))
            /\ sp_pc' = "done"
            /\ UNCHANGED sp_stack
       ELSE /\ PushFrame(sp_stack, Frame(1, Len(sp_points)))
            /\ UNCHANGED sp_result
    /\ UNCHANGED <<sp_points, sp_epsilon, sp_ret>>
    /\ UNCHANGED <<nz_vars, sh_vars, cb_vars, cd_vars, rs_vars, pd_vars, ap_vars, dx_vars>>

\* douglas_peucker from its entry to its first recursive call or its return.
DpEnter ==
    /\ sp_pc = "run"
    /\ ~sp_ret.some
    /\ Top.at = "entry"
    /\ IF SliceLen(Top) < 3
       THEN /\ sp_ret' = Ret(Range(Top.lo, Top.hi))
            /\ sp_stack' = Pop(sp_stack)
            /\ UNCHANGED sp_pc
       ELSE LET m == FarthestPoint(sp_points, Top.lo, Top.hi)
            IN  IF RGt(m.max_distance, sp_epsilon)
                THEN /\ PushFrame(SetTop([Top EXCEPT !.at = "left",
                                                     !.max_index = m.max_index]),
                                  Frame(Top.lo, Top.lo + m.max_index))
                     /\ UNCHANGED sp_ret
                ELSE /\ sp_ret' = Ret(Collapse(Top.lo, Top.hi))
                     /\ sp_stack' = Pop(sp_stack)
                     /\ UNCHANGED sp_pc
    /\ UNCHANGED <<sp_points, sp_epsilon, sp_result>>
    /\ UNCHANGED <<nz_vars, sh_vars, cb_vars, cd_vars, rs_vars, pd_vars, ap_vars, dx_vars>>

\* The first recursive call has returned `left`: the second recursive call.
DpLeftDone ==
    /\ sp_pc = "run"
    /\ sp_ret.some
    /\ Len(sp_stack) > 0
    /\ Top.at = "left"
    /\ PushFrame(SetTop([Top EXCEPT !.at = "right", !.left = sp_ret.v]),
                 Frame(Top.lo + Top.max_index, Top.hi))
    /\ sp_ret' = NoRet
    /\ UNCHANGED <<sp_points, sp_epsilon, sp_result>>
    /\ UNCHANGED <<nz_vars, sh_vars, cb_vars, cd_vars, rs_vars, pd_vars, ap_vars, dx_vars>>

\* The second recursive call has returned `right`: left.pop(); left.extend(right).
DpRightDone ==
    /\ sp_pc = "run"
    /\ sp_ret.some
    /\ Len(sp_stack) > 0
    /\ Top.at = "right"
    /\ sp_ret' = Ret(Join(Top.left, sp_ret.v))
    /\ sp_stack' = Pop(sp_stack)
    /\ UNCHANGED <<sp_points, sp_epsilon, sp_result, sp_pc>>
    /\ UNCHANGED <<nz_vars, sh_vars, cb_vars, cd_vars, rs_vars, pd_vars, ap_vars, dx_vars>>

\* douglas_peucker has returned to simplify_stroke.
SimplifyReturn ==
    /\ sp_pc = "run"
    /\ sp_ret.some
    /\ Len(sp_stack) = 0
    /\ sp_result' = IF Len(sp_ret.v) < 2 /\ Len(sp_points) >= 2
                    THEN <<1, Len(sp_points)>>
                    ELSE sp_ret.v
    /\ sp_ret' = NoRet
    /\ sp_pc' = "done"
    /\ UNCHANGED <<sp_points, sp_epsilon, sp_stack>>
    /\ UNCHANGED <<nz_vars, sh_vars, cb_vars, cd_vars, rs_vars, pd_vars, ap_vars, dx_vars>>

\* The canvas.rs stroke functions are not in use.
NormalizeOff ==
    /\ nz_strokes = <<>>
    /\ nz_target = [target_width |-> F(0), target_height |-> F(0), padding |-> F(0)]
    /\ nz_bbox = [some |-> FALSE, min_x |-> F(0), min_y |-> F(0),
                   max_x |-> F(0), max_y |-> F(0)]
    /\ nz_out = <<>>
    /\ nz_pc = "off"

\* simplify_stroke is not applied twice.
ResimplifyOff ==
    /\ rs_points = <<>>
    /\ rs_epsilon = F(0)
    /\ rs_once = <<>>
    /\ rs_twice = <<>>
    /\ rs_pc = "off"

\* The distance functions are not called on their own.
DistanceOff ==
    /\ pd_point = [x |-> 0, y |-> 0]
    /\ pd_line_start = [x |-> 0, y |-> 0]
    /\ pd_line_end = [x |-> 0, y |-> 0]
    /\ pd_canvas = F(0)
    /\ pd_shapes = 0
    /\ pd_pc = "off"

\* generate_xml is not in use.
DrawioOff ==
    /\ dx_shapes = <<>>
    /\ dx_text = <<>>
    /\ dx_xml = <<>>
    /\ dx_pc = "off"

\* No command of main.rs is running.
AppOff ==
    /\ ap_pc = <<>>
    /\ ap_owner = <<>>
    /\ ap_strokes = 0
    /\ ap_shapes = 0
    /\ ap_text = 0
    /\ ap_llm = 0
    /\ ap_calls = 0
    /\ ap_seen = <<>>

\* classify_diagram is not in use.
DiagramOff ==
    /\ cd_shapes = <<>>
    /\ cd_texts = <<>>
    /\ cd_result = <<"", F(0)>>
    /\ cd_pc = "off"

\* calculate_bounds is not called on its own.
BoundsOff ==
    /\ cb_points = <<>>
    /\ cb_bounds = [x |-> 0, y |-> 0, width |-> 0, height |-> 0, rotation |-> 0]
    /\ cb_pc = "off"

\* detect_shapes is not in use.
ShapesOff ==
    /\ sh_strokes = <<>>
    /\ sh_i = 0
    /\ sh_shapes = <<>>
    /\ sh_uuid = 0
    /\ sh_pc = "off"

\* Inputs of simplify_stroke.
\* The input points lie on two rows of the integer grid.
Coords == 0..MaxCoord
Rows == {0, 1}
PointSet == {Pt(x, y) : x \in Coords, y \in Rows}
PointSeqs == UNION {[1..k -> PointSet] : k \in 0..MaxLen}
Epsilons == {F(-1), F(0), Rat(1, 2), F(1)}

InitSimplify ==
    /\ sp_points \in PointSeqs
    /\ sp_epsilon \in Epsilons
    /\ sp_stack = <<>>
    /\ sp_ret = NoRet
    /\ sp_result = <<>>
    /\ sp_pc = "idle"
    /\ NormalizeOff
    /\ ShapesOff
    /\ BoundsOff
    /\ DiagramOff
    /\ ResimplifyOff
    /\ DistanceOff
    /\ AppOff
    /\ DrawioOff

NextSimplify ==
    \/ SimplifyCall
    \/ DpEnter
    \/ DpLeftDone
    \/ DpRightDone
    \/ SimplifyReturn

SpecSimplify == InitSimplify /\ [][NextSimplify]_vars

\* simplify_stroke as a function of its arguments. douglas_peucker on the
\* slice points[lo..hi] returns the positions of the points it keeps, or NoRet
\* when its recursion exhausts the call stack; depth is the number of
\* activations on the stack.
JoinReturned(left, right) ==
    IF left.some /\ right.some THEN Ret(Join(left.v, right.v)) ELSE NoRet

RECURSIVE douglas_peucker(_, _, _, _, _)
RECURSIVE DpSplit(_, _, _, _, _, _)
DpSplit(points, lo, hi, epsilon, depth, m) ==
    IF RGt(m.max_distance, epsilon)
    THEN IF depth >= StackLimit THEN NoRet
         ELSE JoinReturned(douglas_peucker(points, lo, lo + m.max_index, epsilon, depth + 1),
                           douglas_peucker(points, lo + m.max_index, hi, epsilon, depth + 1))
    ELSE Ret(Collapse(lo, hi))

douglas_peucker(points, lo, hi, epsilon, depth) ==
    IF hi - lo + 1 < 3 THEN Ret(Range(lo, hi))
    ELSE DpSplit(points, lo, hi, epsilon, depth, FarthestPoint(points, lo, hi))

\* simplify_stroke, given what douglas_peucker returned.
ResultOfDouglasPeucker(points, result) ==
    IF ~result.some THEN NoRet
    ELSE IF Len(result.v) < 2 /\ Len(points) >= 2
    THEN Ret(<<points[1], points[Len(points)]>>)
    ELSE Ret(PointsAt(points, result.v))

simplify_stroke(points, epsilon) ==
    IF Len(points) < 3 THEN Ret(points)
    ELSE ResultOfDouglasPeucker(points, douglas_peucker(points, 1, Len(points), epsilon, 1))

\* simplify_stroke(points, epsilon)
SimplifyOnce ==
    /\ rs_pc = "idle"
    /\ rs_once' = simplify_stroke(rs_points, rs_epsilon).v
    /\ rs_pc' = IF simplify_stroke(rs_points, rs_epsilon).some THEN "once" ELSE "overflow"
    /\ UNCHANGED <<rs_points, rs_epsilon, rs_twice>>
    /\ UNCHANGED <<sp_vars, nz_vars, sh_vars, cb_vars, cd_vars, pd_vars, ap_vars, dx_vars>>

\* simplify_stroke on the value the first call returned, with the same epsilon.
SimplifyTwice ==
    /\ rs_pc = "once"
    /\ rs_twice' = simplify_stroke(rs_once, rs_epsilon).v
    /\ rs_pc' = IF simplify_stroke(rs_once, rs_epsilon).some THEN "twice" ELSE "overflow"
    /\ UNCHANGED <<rs_points, rs_epsilon, rs_once>>
    /\ UNCHANGED <<sp_vars, nz_vars, sh_vars, cb_vars, cd_vars, pd_vars, ap_vars, dx_vars>>

InitResimplify ==
    /\ rs_points \in PointSeqs
    /\ rs_epsilon \in Epsilons
    /\ rs_once = <<>>
    /\ rs_twice = <<>>
    /\ rs_pc = "idle"
    /\ sp_points = <<>>
    /\ sp_epsilon = F(0)
    /\ sp_stack = <<>>
    /\ sp_ret = NoRet
    /\ sp_result = <<>>
    /\ sp_pc = "off"
    /\ NormalizeOff
    /\ ShapesOff
    /\ BoundsOff
    /\ DiagramOff
    /\ DistanceOff
    /\ AppOff
    /\ DrawioOff

NextResimplify ==
    \/ SimplifyOnce
    \/ SimplifyTwice

SpecResimplify == InitResimplify /\ [][NextResimplify]_vars

\* What simplify_stroke returned.
SimplifyResult == PointsAt(sp_points, sp_result)

\* ------------------------------------------------- canvas.rs: stroke lists
\* Point { x, y, pressure, timestamp } and Stroke { id, points, color, width, tool }
Point(x, y, pressure, timestamp) ==
    [x |-> x, y |-> y, pressure |-> pressure, timestamp |-> timestamp]
Stroke(id, points, color, width, tool) ==
    [id |-> id, points |-> points, color |-> color, width |-> width, tool |-> tool]

None == [some |-> FALSE, min_x |-> F(0), min_y |-> F(0), max_x |-> F(0), max_y |-> F(0)]
Some(min_x, min_y, max_x, max_y) ==
    [some |-> TRUE, min_x |-> min_x, min_y |-> min_y, max_x |-> max_x, max_y |-> max_y]

\* The inner loop of calculate_bounding_box over points[i..] of one stroke.
RECURSIVE BoxOfPoints(_, _, _)
BoxOfPoints(points, i, box) ==
    IF i > Len(points) THEN box
    ELSE BoxOfPoints(points, i + 1,
                     Some(RMin(box.min_x, points[i].x), RMin(box.min_y, points[i].y),
                          RMax(box.max_x, points[i].x), RMax(box.max_y, points[i].y)))

\* The outer loop of calculate_bounding_box over strokes[i..].
RECURSIVE BoxOfStrokes(_, _, _)
BoxOfStrokes(strokes, i, box) ==
    IF i > Len(strokes) THEN box
    ELSE BoxOfStrokes(strokes, i + 1, BoxOfPoints(strokes[i].points, 1, box))

BoxNoneWithoutPoints(strokes) ==
    IF \A i \in 1..Len(strokes) : Len(strokes[i].points) = 0
    THEN None
    ELSE BoxOfStrokes(strokes, 1, Some(F(F64_MAX), F(F64_MAX), F(-F64_MAX), F(-F64_MAX)))
calculate_bounding_box(strokes) ==
    IF Len(strokes) = 0
    THEN None
    ELSE BoxOfStrokes(strokes, 1, Some(F(F64_MAX), F(F64_MAX), F(-F64_MAX), F(-F64_MAX)))

\* padding + (target - 2.0 * padding - extent * scale) / 2.0
OffsetNotCentred(padding, target, extent, scale) == padding
Offset(padding, target, extent, scale) ==
    RAdd(padding,
         RDiv(RSub(RSub(target, RMul(F(2), padding)), RMul(extent, scale)), F(2)))

\* The Point built for p by the inner map of normalize_strokes.
NormalizePointYUnscaled(p, min_x, min_y, scale, offset_x, offset_y) ==
    Point(RAdd(RMul(RSub(p.x, min_x), scale), offset_x),
          RAdd(RSub(p.y, min_y), offset_y),
          p.pressure, p.timestamp)
NormalizePoint(p, min_x, min_y, scale, offset_x, offset_y) ==
    Point(RAdd(RMul(RSub(p.x, min_x), scale), offset_x),
          RAdd(RMul(RSub(p.y, min_y), scale), offset_y),
          p.pressure, p.timestamp)

\* The Stroke built for stroke by the outer map of normalize_strokes.
NormalizeStrokeDropsPressure(stroke, min_x, min_y, scale, offset_x, offset_y) ==
    Stroke(stroke.id,
           [k \in 1..Len(stroke.points) |->
               [NormalizePoint(stroke.points[k], min_x, min_y, scale, offset_x, offset_y)
                   EXCEPT !.pressure = "None"]],
           stroke.color,
           RMul(stroke.width, scale),
           stroke.tool)
NormalizeStroke(stroke, min_x, min_y, scale, offset_x, offset_y) ==
    Stroke(stroke.id,
           [k \in 1..Len(stroke.points) |->
               NormalizePoint(stroke.points[k], min_x, min_y, scale, offset_x, offset_y)],
           stroke.color,
           RMul(stroke.width, scale),
           stroke.tool)

normalize_strokes(strokes, target_width, target_height, padding) ==
    LET bbox == calculate_bounding_box(strokes)
        width == RSub(bbox.max_x, bbox.min_x)
        height == RSub(bbox.max_y, bbox.min_y)
        scale_x == RDiv(RSub(target_width, RMul(F(2), padding)), width)
        scale_y == RDiv(RSub(target_height, RMul(F(2), padding)), height)
        scale == RMin(scale_x, scale_y)
        offset_x == Offset(padding, target_width, width, scale)
        offset_y == Offset(padding, target_height, height, scale)
    IN  IF ~bbox.some THEN strokes
        ELSE IF REq(width, F(0)) \/ REq(height, F(0)) THEN strokes
        ELSE [k \in 1..Len(strokes) |->
                 NormalizeStroke(strokes[k], bbox.min_x, bbox.min_y,
                                 scale, offset_x, offset_y)]

\* A call of calculate_bounding_box(strokes).
CalculateBoundingBox ==
    /\ nz_pc = "idle"
    /\ nz_bbox' = calculate_bounding_box(nz_strokes)
    /\ nz_pc' = "bbox"
    /\ UNCHANGED <<nz_strokes, nz_target, nz_out>>
    /\ UNCHANGED <<sp_vars, sh_vars, cb_vars, cd_vars, rs_vars, pd_vars, ap_vars, dx_vars>>

\* A call of normalize_strokes(strokes, target_width, target_height, padding).
NormalizeStrokes ==
    /\ nz_pc = "idle"
    /\ nz_out' = normalize_strokes(nz_strokes, nz_target.target_width,
                                   nz_target.target_height, nz_target.padding)
    /\ nz_pc' = "normalized"
    /\ UNCHANGED <<nz_strokes, nz_target, nz_bbox>>
    /\ UNCHANGED <<sp_vars, sh_vars, cb_vars, cd_vars, rs_vars, pd_vars, ap_vars, dx_vars>>

\* Inputs of the stroke functions: strokes with no point, one point, points on
\* one horizontal or one vertical line, and points spanning a box.
P(x, y, pressure, timestamp) == Point(F(x), F(y), pressure, timestamp)
StrokeCatalogue ==
    { Stroke("s0", <<>>, "#000000", F(2), "pen"),
      Stroke("s1", <<P(1, 1, "None", 7)>>, "#ff0000", F(1), "pen"),
      Stroke("s2", <<P(0, 2, "Some(0.5)", 1), P(3, 2, "None", 2)>>, "#00ff00", F(3), "marker"),
      Stroke("s3", <<P(1, 0, "None", 3), P(1, 4, "Some(1.0)", 4)>>, "#0000ff", F(1), "pen"),
      Stroke("s4", <<P(4, 3, "Some(0.5)", 5), P(0, 0, "None", 6), P(2, 1, "None", 9)>>,
             "#000000", Rat(3, 2), "eraser") }
StrokeLists == UNION {[1..k -> StrokeCatalogue] : k \in 0..MaxStrokes}
Target(w, h, padding) ==
    [target_width |-> F(w), target_height |-> F(h), padding |-> F(padding)]
Targets == { Target(8, 6, 1), Target(6, 8, 0), Target(10, 10, 2),
             Target(8, 6, 3), Target(4, 4, 3) }

SimplifyOff ==
    /\ sp_points = <<>>
    /\ sp_epsilon = F(0)
    /\ sp_stack = <<>>
    /\ sp_ret = NoRet
    /\ sp_result = <<>>
    /\ sp_pc = "off"

InitNormalize ==
    /\ nz_strokes \in StrokeLists
    /\ nz_target \in Targets
    /\ nz_bbox = None
    /\ nz_out = <<>>
    /\ nz_pc = "idle"
    /\ SimplifyOff
    /\ ShapesOff
    /\ BoundsOff
    /\ DiagramOff
    /\ ResimplifyOff
    /\ DistanceOff
    /\ AppOff
    /\ DrawioOff

NextNormalize ==
    \/ CalculateBoundingBox
    \/ NormalizeStrokes

SpecNormalize == InitNormalize /\ [][NextNormalize]_vars

\* ---------------------------------------------------------------- shapes.rs
\* DetectionParams::default()
DefaultParams ==
    [min_points |-> 5,
     circularity_threshold |-> 850,
     rectangularity_threshold |-> 800,
     line_straightness_threshold |-> 950,
     arrow_angle_tolerance |-> 30000]

\* The fixed-point coordinates of a Point.
FX(p) == FxOf(p.x)
FY(p) == FxOf(p.y)

\* The x and the y coordinates of the points, in order.
MapX(points) == [k \in 1..Len(points) |-> FX(points[k])]
MapY(points) == [k \in 1..Len(points) |-> FY(points[k])]

\* Folds of f64::min, f64::max and + over values[i..].
RECURSIVE FoldMin(_, _, _)
FoldMin(values, i, acc) ==
    IF i > Len(values) THEN acc ELSE FoldMin(values, i + 1, Min2(acc, values[i]))
RECURSIVE FoldMax(_, _, _)
FoldMax(values, i, acc) ==
    IF i > Len(values) THEN acc ELSE FoldMax(values, i + 1, Max2(acc, values[i]))
RECURSIVE FoldSum(_, _, _)
FoldSum(values, i, acc) ==
    IF i > Len(values) THEN acc ELSE FoldSum(values, i + 1, acc + values[i])

ShapeBounds(x, y, width, height, rotation) ==
    [x |-> x, y |-> y, width |-> width, height |-> height, rotation |-> rotation]

calculate_bounds(points) ==
    LET min_x == FoldMin(MapX(points), 1, FxOf(F(F64_MAX)))
        min_y == FoldMin(MapY(points), 1, FxOf(F(F64_MAX)))
        max_x == FoldMax(MapX(points), 1, FxOf(F(-F64_MAX)))
        max_y == FoldMax(MapY(points), 1, FxOf(F(-F64_MAX)))
    IN  ShapeBounds(min_x, min_y, RoundF(max_x - min_x), RoundF(max_y - min_y), 0)

\* calculate_bounds is called on its own.
CalculateBounds ==
    /\ cb_pc = "idle"
    /\ cb_bounds' = calculate_bounds(cb_points)
    /\ cb_pc' = "done"
    /\ UNCHANGED cb_points
    /\ UNCHANGED <<sp_vars, nz_vars, sh_vars, cd_vars, rs_vars, pd_vars, ap_vars, dx_vars>>

calculate_centroid(points) ==
    LET n == Len(points) * SCALE
        sum_x == FoldSum(MapX(points), 1, 0)
        sum_y == FoldSum(MapY(points), 1, 0)
    IN  <<FDiv(sum_x, n), FDiv(sum_y, n)>>

is_stroke_closed(points, threshold) ==
    IF Len(points) < 3 THEN FALSE
    ELSE LET start == points[1]
             end == points[Len(points)]
             distance == FHypot(FX(start) - FX(end), FY(start) - FY(end))
         IN  distance < threshold

calculate_average_radius(points, center) ==
    LET radii == [k \in 1..Len(points) |->
                     FHypot(FX(points[k]) - center[1], FY(points[k]) - center[2])]
    IN  FDiv(FoldSum(radii, 1, 0), Len(points) * SCALE)

\* calculate_circularity, given the average radius.
CircularityAbout(points, center, avg_radius) ==
    LET deviations == [k \in 1..Len(points) |->
            FSq(FHypot(FX(points[k]) - center[1], FY(points[k]) - center[2]) - avg_radius)]
        variance == FDiv(FoldSum(deviations, 1, 0), Len(points) * SCALE)
        std_dev == FSqrt(variance)
        coefficient_of_variation == FDiv(std_dev, avg_radius)
    IN  IF avg_radius = 0 THEN 0
        ELSE Min2(Max2(SCALE - coefficient_of_variation, 0), SCALE)

calculate_circularity(points, center) ==
    CircularityAbout(points, center, calculate_average_radius(points, center))

\* The shoelace sum of calculate_convex_hull_area over points[i..] (1-based).
RECURSIVE Shoelace(_, _, _)
Shoelace(points, i, area) ==
    IF i > Len(points) THEN area
    ELSE LET j == (i % Len(points)) + 1
         IN  Shoelace(points, i + 1,
                      area + FMul(FX(points[i]), FY(points[j]))
                           - FMul(FX(points[j]), FY(points[i])))

calculate_convex_hull_area(points) ==
    IF Len(points) < 3 THEN 0
    ELSE Abs(FDiv(Shoelace(points, 1, 0), 2 * SCALE))

detect_corners(points, bounds) ==
    LET corners == << <<bounds.x, bounds.y>>,
                      <<bounds.x + bounds.width, bounds.y>>,
                      <<bounds.x + bounds.width, bounds.y + bounds.height>>,
                      <<bounds.x, bounds.y + bounds.height>> >>
        threshold == FMul(Max2(bounds.width, bounds.height), 150)
        Found(corner) == \E k \in 1..Len(points) :
            FHypot(FX(points[k]) - corner[1], FY(points[k]) - corner[2]) < threshold
        found_corners == Cardinality({c \in 1..4 : Found(corners[c])})
    IN  FDiv(found_corners * SCALE, 4 * SCALE)

RectangularityUnclamped(points, bounds) ==
    LET area == FMul(bounds.width, bounds.height)
        hull_area == calculate_convex_hull_area(points)
        ratio == FDiv(hull_area, area)
        corner_score == detect_corners(points, bounds)
    IN  IF area = 0 THEN 0
        ELSE FMul(ratio, 600) + FMul(corner_score, 400)
calculate_rectangularity(points, bounds) ==
    LET area == FMul(bounds.width, bounds.height)
        hull_area == calculate_convex_hull_area(points)
        ratio == FDiv(hull_area, area)
        corner_score == detect_corners(points, bounds)
    IN  IF area = 0 THEN 0
        ELSE Min2(FMul(ratio, 600) + FMul(corner_score, 400), SCALE)

\* The test of check_diamond for one point angle and one cardinal direction.
NearCardinal(angle, target_angle) ==
    LET diff == Abs(angle - target_angle)
    IN  diff < PI_6 \/ Abs(PI - diff) < PI_6

check_diamond(points, center) ==
    LET angles == <<-HALF_PI, 0, HALF_PI, PI>>
        Angle(p) == Atan2(FY(p) - center[2], FX(p) - center[1])
        cardinal_scores ==
            [i \in 1..4 |->
                Cardinality({k \in 1..Len(points) : NearCardinal(Angle(points[k]), angles[i])})]
    IN  \A i \in 1..4 : cardinal_scores[i] > 0

\* The distance of (px, py) from its projection at t on the segment that
\* starts at (sx, sy) and spans (dx, dy).
ProjectionDistance(px, py, sx, sy, dx, dy, t) ==
    FHypot(px - (sx + FMul(t, dx)), py - (sy + FMul(t, dy)))

\* point_to_line_distance, given the coordinates and length_sq.
SegmentDistance(px, py, sx, sy, dx, dy, length_sq) ==
    IF length_sq = 0 THEN FHypot(px - sx, py - sy)
    ELSE ProjectionDistance(px, py, sx, sy, dx, dy,
             Min2(Max2(FDiv(FMul(px - sx, dx) + FMul(py - sy, dy), length_sq), 0), SCALE))

\* point_to_line_distance, given the coordinates.
DistanceAlong(px, py, sx, sy, dx, dy) ==
    SegmentDistance(px, py, sx, sy, dx, dy, FSq(dx) + FSq(dy))

point_to_line_distance(point, line_start, line_end) ==
    DistanceAlong(FX(point), FY(point), FX(line_start), FY(line_start),
                  FX(line_end) - FX(line_start), FY(line_end) - FY(line_start))

\* perpendicular_distance of canvas.rs and point_to_line_distance of shapes.rs
\* called with the same three points.
MeasureDistance ==
    /\ pd_pc = "idle"
    /\ pd_canvas' = perpendicular_distance(pd_point, pd_line_start, pd_line_end)
    /\ pd_shapes' = point_to_line_distance(P(pd_point.x, pd_point.y, "None", 0),
                                           P(pd_line_start.x, pd_line_start.y, "None", 0),
                                           P(pd_line_end.x, pd_line_end.y, "None", 0))
    /\ pd_pc' = "done"
    /\ UNCHANGED <<pd_point, pd_line_start, pd_line_end>>
    /\ UNCHANGED <<sp_vars, nz_vars, sh_vars, cb_vars, cd_vars, rs_vars, ap_vars, dx_vars>>

\* Inputs of the distance functions: points of a grid of two rows.
DistancePoints == {Pt(x, y) : x \in 0..MaxDistanceCoord, y \in {0, 1}}

InitDistance ==
    /\ pd_point \in DistancePoints
    /\ pd_line_start \in DistancePoints
    /\ pd_line_end \in DistancePoints
    /\ pd_canvas = F(0)
    /\ pd_shapes = 0
    /\ pd_pc = "idle"
    /\ SimplifyOff
    /\ NormalizeOff
    /\ ShapesOff
    /\ BoundsOff
    /\ DiagramOff
    /\ ResimplifyOff
    /\ AppOff
    /\ DrawioOff

NextDistance == MeasureDistance

SpecDistance == InitDistance /\ [][NextDistance]_vars

\* angle_changes of find_prominent_corners: <<i, change>> for the interior
\* points, i a 0-based index.
AngleChanges(points) ==
    [m \in 1..(Len(points) - 2) |->
        LET prev == points[m]
            curr == points[m + 1]
            next == points[m + 2]
            angle1 == Atan2(FY(curr) - FY(prev), FX(curr) - FX(prev))
            angle2 == Atan2(FY(next) - FY(curr), FX(next) - FX(curr))
        IN  <<m, Abs(angle2 - angle1)>>]

\* sort_by(|a, b| b.1.partial_cmp(&a.1)): a stable sort, largest change first.
RECURSIVE InsertDescending(_, _)
InsertDescending(sorted, e) ==
    IF Len(sorted) = 0 THEN <<e>>
    ELSE IF sorted[Len(sorted)][2] >= e[2] THEN Append(sorted, e)
    ELSE Append(InsertDescending(Pop(sorted), e), sorted[Len(sorted)])
RECURSIVE SortDescending(_, _, _)
SortDescending(changes, i, sorted) ==
    IF i > Len(changes) THEN sorted
    ELSE SortDescending(changes, i + 1, InsertDescending(sorted, changes[i]))

\* The first count entries of the sorted angle_changes, as points.
TakeCorners(points, count, angle_changes) ==
    [m \in 1..Min2(count, Len(angle_changes)) |-> points[angle_changes[m][1] + 1]]

find_prominent_corners(points, count) ==
    IF Len(points) < 3 THEN points
    ELSE TakeCorners(points, count, SortDescending(AngleChanges(points), 1, <<>>))

\* calculate_triangle_score, given the prominent corners.
TriangleScoreOf(points, corners) ==
    LET OnEdge(point) == \E i \in 1..3 :
            point_to_line_distance(point, corners[i], corners[(i % 3) + 1]) < 10000
        on_edge_count == Cardinality({k \in 1..Len(points) : OnEdge(points[k])})
    IN  IF Len(corners) < 3 THEN 0
        ELSE FDiv(on_edge_count * SCALE, Len(points) * SCALE)

calculate_triangle_score(points) ==
    TriangleScoreOf(points, find_prominent_corners(points, 3))

\* The path length loop of calculate_straightness over points[i..].
RECURSIVE PathLength(_, _, _)
PathLength(points, i, path_length) ==
    IF i > Len(points) THEN path_length
    ELSE PathLength(points, i + 1,
                    path_length + FSqrt(FSq(FX(points[i]) - FX(points[i - 1]))
                                        + FSq(FY(points[i]) - FY(points[i - 1]))))

\* calculate_straightness, given the distance from the first to the last point.
StraightnessOf(points, direct_distance) ==
    IF direct_distance = 0 THEN 0
    ELSE Min2(FDiv(direct_distance, PathLength(points, 2, 0)), SCALE)

calculate_straightness(points) ==
    IF Len(points) < 2 THEN SCALE
    ELSE StraightnessOf(points,
             FHypot(FX(points[Len(points)]) - FX(points[1]),
                    FY(points[Len(points)]) - FY(points[1])))

NoArrowHead == [some |-> FALSE, style |-> "", size |-> 0, direction |-> 0]
ArrowHead(style, size, direction) ==
    [some |-> TRUE, style |-> style, size |-> size, direction |-> direction]

\* n.saturating_sub(k)
SaturatingSub(n, k) == IF n < k THEN 0 ELSE n - k

\* The barb test without its lower limit of 30 degrees.
BarbBelowUpperLimit(points, i, main_direction) ==
    LET p1 == points[i + 1]
        p2 == points[i + 2]
        segment_angle == Atan2(FY(p2) - FY(p1), FX(p2) - FX(p1))
        angle_diff == FDiv(Abs(segment_angle - main_direction) * 180, PI) % (180 * SCALE)
    IN  angle_diff < 150000

\* The barb test of detect_arrow_head for the segment that starts at the
\* 0-based index i.
IsBarb(points, i, main_direction) ==
    LET p1 == points[i + 1]
        p2 == points[i + 2]
        segment_angle == Atan2(FY(p2) - FY(p1), FX(p2) - FX(p1))
        angle_diff == FDiv(Abs(segment_angle - main_direction) * 180, PI) % (180 * SCALE)
    IN  angle_diff > 30000 /\ angle_diff < 150000

\* detect_arrow_head, given main_direction.
ArrowHeadAlong(points, main_direction) ==
    IF \E i \in SaturatingSub(Len(points), 5)..(Len(points) - 2) :
           IsBarb(points, i, main_direction)
    THEN ArrowHead("classic", 10 * SCALE, FDiv(main_direction * 180, PI))
    ELSE NoArrowHead

\* The main direction of detect_arrow_head: from the point from to tip.
DirectionTo(tip, from) == Atan2(FY(tip) - FY(from), FX(tip) - FX(from))

detect_arrow_head(points, angle_tolerance) ==
    IF Len(points) < 5 THEN NoArrowHead
    ELSE ArrowHeadAlong(points,
             DirectionTo(points[Len(points)],
                 IF SaturatingSub(Len(points), 10) > 0
                 THEN points[SaturatingSub(Len(points), 10) + 1]
                 ELSE points[1]))

\* Option<f64> and Option<(f64, f64)>
NoValue == [some |-> FALSE, v |-> 0]
Value(v) == [some |-> TRUE, v |-> v]

ShapeProperties(center_x, center_y, radius, start_point, end_point, corner_radius, arrow_head) ==
    [center_x |-> center_x, center_y |-> center_y, radius |-> radius,
     start_point |-> start_point, end_point |-> end_point,
     corner_radius |-> corner_radius, arrow_head |-> arrow_head]

DetectedShape(id, shape_type, bounds, confidence, stroke_ids, properties) ==
    [id |-> id, shape_type |-> shape_type, bounds |-> bounds,
     confidence |-> confidence, stroke_ids |-> stroke_ids,
     properties |-> properties]

\* The (shape_type, confidence) of a closed stroke that is no circle and no
\* rectangle, given its triangle score.
TriangleOrFreeform(triangle_score) ==
    IF triangle_score > 750 THEN <<"Triangle", triangle_score>> ELSE <<"Freeform", 500>>

\* The (shape_type, confidence) of a closed stroke that is no circle, given
\* its rectangularity.
RectangleOrLess(points, center, params, rectangularity) ==
    IF rectangularity > params.rectangularity_threshold
    THEN IF check_diamond(points, center)
         THEN <<"Diamond", FMul(rectangularity, 950)>>
         ELSE <<"Rectangle", rectangularity>>
    ELSE TriangleOrFreeform(calculate_triangle_score(points))

\* The (shape_type, confidence) of a closed stroke, given its circularity.
RectangleBeforeCircle(points, bounds, center, params, circularity) ==
    IF calculate_rectangularity(points, bounds) > params.rectangularity_threshold
       \/ circularity <= params.circularity_threshold
    THEN RectangleOrLess(points, center, params, calculate_rectangularity(points, bounds))
    ELSE <<"Circle", circularity>>
CircleOrLess(points, bounds, center, params, circularity) ==
    IF circularity > params.circularity_threshold
    THEN <<"Circle", circularity>>
    ELSE RectangleOrLess(points, center, params, calculate_rectangularity(points, bounds))

\* The (shape_type, confidence) of an open stroke, given its straightness.
LineOrConnector(points, params, straightness) ==
    IF straightness > params.line_straightness_threshold
    THEN IF detect_arrow_head(points, params.arrow_angle_tolerance).some
         THEN <<"Arrow", FMul(straightness, 950)>>
         ELSE <<"Line", straightness>>
    ELSE <<"Connector", 600>>

\* The pair (shape_type, confidence) that detect_shape_from_stroke computes.
ShapeTypeAndConfidence(points, bounds, center, params) ==
    IF is_stroke_closed(points, FMul(Max2(bounds.width, bounds.height), 100))
    THEN CircleOrLess(points, bounds, center, params, calculate_circularity(points, center))
    ELSE LineOrConnector(points, params, calculate_straightness(points))

\* The shape detect_shape_from_stroke builds, given shape_type and confidence.
\* The shape with a radius whatever its type.
ShapeWithRadiusAlways(stroke, params, uuid, bounds, center, shape_type, confidence) ==
    DetectedShape(uuid, shape_type, bounds, confidence, <<stroke.id>>,
        ShapeProperties(center[1], center[2],
            Value(calculate_average_radius(stroke.points, center)),
            Value(<<FX(stroke.points[1]), FY(stroke.points[1])>>),
            Value(<<FX(stroke.points[Len(stroke.points)]),
                    FY(stroke.points[Len(stroke.points)])>>),
            NoValue,
            IF shape_type = "Arrow"
            THEN detect_arrow_head(stroke.points, params.arrow_angle_tolerance)
            ELSE NoArrowHead))

ClassifiedShape(stroke, params, uuid, bounds, center, shape_type, confidence) ==
    DetectedShape(uuid, shape_type, bounds, confidence, <<stroke.id>>,
        ShapeProperties(center[1], center[2],
            IF shape_type = "Circle"
            THEN Value(calculate_average_radius(stroke.points, center))
            ELSE NoValue,
            Value(<<FX(stroke.points[1]), FY(stroke.points[1])>>),
            Value(<<FX(stroke.points[Len(stroke.points)]),
                    FY(stroke.points[Len(stroke.points)])>>),
            NoValue,
            IF shape_type = "Arrow"
            THEN detect_arrow_head(stroke.points, params.arrow_angle_tolerance)
            ELSE NoArrowHead))

\* The shape detect_shape_from_stroke builds, given the pair classified.
ShapeOfPair(stroke, params, uuid, bounds, center, classified) ==
    ClassifiedShape(stroke, params, uuid, bounds, center, classified[1], classified[2])

\* The shape detect_shape_from_stroke builds, given bounds and center.
ShapeOfStroke(stroke, params, uuid, bounds, center) ==
    ShapeOfPair(stroke, params, uuid, bounds, center,
                ShapeTypeAndConfidence(stroke.points, bounds, center, params))

\* Option<DetectedShape> is a sequence of no or one shape; uuid stands for
\* the value of Uuid::new_v4().
detect_shape_from_stroke(stroke, params, uuid) ==
    IF Len(stroke.points) = 0 THEN <<>>
    ELSE <<ShapeOfStroke(stroke, params, uuid, calculate_bounds(stroke.points),
                         calculate_centroid(stroke.points))>>

CompoundRepeatsShapes(shapes, strokes) == shapes
CompoundOfTwoShapes(shapes, strokes) == IF Len(shapes) >= 2 THEN <<shapes[1]>> ELSE <<>>
detect_compound_shapes(shapes, strokes) == <<>>

merge_shapes(individual, compound) == individual \o compound

\* The loop of detect_shapes from the stroke at position i on, as a function.
RECURSIVE DetectLoop(_, _, _, _)
DetectLoop(strokes, i, shapes, params) ==
    IF i > Len(strokes) THEN shapes
    ELSE IF Len(strokes[i].points) < params.min_points
    THEN DetectLoop(strokes, i + 1, shapes, params)
    ELSE DetectLoop(strokes, i + 1,
                    shapes \o detect_shape_from_stroke(strokes[i], params, Len(shapes) + 1),
                    params)

\* The end of detect_shapes, given the shapes of the loop.
MergeCompound(shapes, strokes) ==
    merge_shapes(shapes, detect_compound_shapes(shapes, strokes))

\* detect_shapes as a function of its argument.
detect_shapes(strokes) == MergeCompound(DetectLoop(strokes, 1, <<>>, DefaultParams), strokes)

\* detect_shapes: the loop meets a stroke with fewer than min_points points.
DetectSkipStroke ==
    /\ sh_pc = "loop"
    /\ sh_i < Len(sh_strokes)
    /\ Len(sh_strokes[sh_i + 1].points) < DefaultParams.min_points
    /\ sh_i' = sh_i + 1
    /\ UNCHANGED <<sh_strokes, sh_shapes, sh_uuid, sh_pc>>
    /\ UNCHANGED <<sp_vars, nz_vars, cb_vars, cd_vars, rs_vars, pd_vars, ap_vars, dx_vars>>

\* detect_shapes: the loop classifies a stroke and pushes its shape.
DetectPushShape ==
    /\ sh_pc = "loop"
    /\ sh_i < Len(sh_strokes)
    /\ Len(sh_strokes[sh_i + 1].points) >= DefaultParams.min_points
    /\ sh_shapes' = sh_shapes \o detect_shape_from_stroke(sh_strokes[sh_i + 1],
                                                          DefaultParams, sh_uuid + 1)
    /\ sh_uuid' = sh_uuid + (Len(sh_shapes') - Len(sh_shapes))
    /\ sh_i' = sh_i + 1
    /\ UNCHANGED <<sh_strokes, sh_pc>>
    /\ UNCHANGED <<sp_vars, nz_vars, cb_vars, cd_vars, rs_vars, pd_vars, ap_vars, dx_vars>>

\* detect_shapes: after the loop, the compound shapes are merged in and the
\* result is returned.
DetectShapesReturn ==
    /\ sh_pc = "loop"
    /\ sh_i = Len(sh_strokes)
    /\ sh_shapes' = merge_shapes(sh_shapes, detect_compound_shapes(sh_shapes, sh_strokes))
    /\ sh_pc' = "done"
    /\ UNCHANGED <<sh_strokes, sh_i, sh_uuid>>
    /\ UNCHANGED <<sp_vars, nz_vars, cb_vars, cd_vars, rs_vars, pd_vars, ap_vars, dx_vars>>

\* Inputs of detect_shapes: one stroke for every branch of the classifier,
\* and strokes with fewer than min_points points.
Path(xy) == [k \in 1..Len(xy) |-> P(xy[k][1], xy[k][2], "None", k)]
AllPaths ==
    << \* an octagon
      << <<3, 0>>, <<2, 2>>, <<0, 3>>, <<-2, 2>>, <<-3, 0>>, <<-2, -2>>,
         <<0, -3>>, <<2, -2>>, <<3, 0>> >>,
      \* a square with its corners and the middle of its sides
      << <<0, 0>>, <<2, 0>>, <<4, 0>>, <<4, 2>>, <<4, 4>>, <<2, 4>>,
         <<0, 4>>, <<0, 2>>, <<0, 0>> >>,
      \* the corners of a rectangle
      << <<0, 0>>, <<6, 0>>, <<6, 3>>, <<0, 3>>, <<0, 0>> >>,
      \* a rectangle drawn over twice
      << <<0, 0>>, <<6, 0>>, <<6, 3>>, <<0, 3>>, <<0, 0>>, <<6, 0>>,
         <<6, 3>>, <<0, 3>>, <<3, 1>>, <<0, 0>> >>,
      \* a triangle
      << <<0, 0>>, <<4, 0>>, <<2, 3>>, <<1, 1>>, <<0, 0>> >>,
      \* a large L
      << <<0, 0>>, <<60, 0>>, <<60, 20>>, <<20, 20>>, <<20, 60>>, <<0, 60>>,
         <<0, 0>> >>,
      \* a shaft with a barb
      << <<0, 0>>, <<10, 0>>, <<20, 0>>, <<30, 0>>, <<40, 0>>, <<40, 1>> >>,
      \* a straight line
      << <<0, 0>>, <<1, 0>>, <<2, 0>>, <<3, 0>>, <<4, 0>> >>,
      \* a staircase
      << <<0, 0>>, <<2, 0>>, <<2, 2>>, <<4, 2>>, <<4, 4>> >>,
      \* a rectangle drawn over twice, ending at its start
      << <<0, 0>>, <<6, 0>>, <<6, 3>>, <<0, 3>>, <<0, 0>>, <<6, 0>>,
         <<6, 3>>, <<0, 3>>, <<0, 0>> >>,
      \* the square of side 100 with its corners and the middle of its sides
      << <<0, 0>>, <<50, 0>>, <<100, 0>>, <<100, 50>>, <<100, 100>>,
         <<50, 100>>, <<0, 100>>, <<0, 50>>, <<0, 0>> >>,
      \* the square of side 100 with a point every 20 along its sides
      << <<0, 0>>, <<20, 0>>, <<40, 0>>, <<60, 0>>, <<80, 0>>, <<100, 0>>,
         <<100, 20>>, <<100, 40>>, <<100, 60>>, <<100, 80>>, <<100, 100>>,
         <<80, 100>>, <<60, 100>>, <<40, 100>>, <<20, 100>>, <<0, 100>>,
         <<0, 80>>, <<0, 60>>, <<0, 40>>, <<0, 20>>, <<0, 0>> >>,
      \* ten points along a diagonal
      << <<0, 0>>, <<10, 10>>, <<20, 20>>, <<30, 30>>, <<40, 40>>,
         <<50, 50>>, <<60, 60>>, <<70, 70>>, <<80, 80>>, <<90, 90>> >>,
      \* eleven points along a line, drawn leftwards
      << <<0, 0>>, <<-10, 0>>, <<-20, 0>>, <<-30, 0>>, <<-40, 0>>,
         <<-50, 0>>, <<-60, 0>>, <<-70, 0>>, <<-80, 0>>, <<-90, 0>>,
         <<-100, 0>> >>,
      \* the square of side 100 with its corners and the middle of two sides
      << <<0, 0>>, <<100, 0>>, <<100, 50>>, <<100, 100>>, <<50, 100>>,
         <<0, 100>>, <<0, 0>> >>,
      \* back and forth on a horizontal line, ending at the start
      << <<0, 0>>, <<100, 0>>, <<0, 0>>, <<100, 0>>, <<0, 0>> >>,
      \* five points along a slanted line, unevenly spaced
      << <<0, 0>>, <<-3, -7>>, <<-6, -14>>, <<-12, -28>>, <<-30, -70>> >>,
      \* fewer than min_points points
      << <<0, 0>>, <<1, 0>>, <<2, 0>>, <<3, 0>> >>,
      << >> >>
ShapePaths == {AllPaths[k] : k \in 1..Len(AllPaths)}
\* The stroke at position k has the id k. The inputs are the short lists of
\* strokes and the list of all of them.
StrokesOf(paths) ==
    [k \in 1..Len(paths) |-> Stroke(ToString(k), Path(paths[k]), "#000000", F(2), "pen")]
DetectInputs ==
    UNION {{StrokesOf(paths) : paths \in [1..n -> ShapePaths]} : n \in 0..MaxDetect}
    \cup {StrokesOf(AllPaths)}

InitShapes ==
    /\ sh_strokes \in DetectInputs
    /\ sh_i = 0
    /\ sh_shapes = <<>>
    /\ sh_uuid = 0
    /\ sh_pc = "loop"
    /\ SimplifyOff
    /\ NormalizeOff
    /\ BoundsOff
    /\ DiagramOff
    /\ ResimplifyOff
    /\ DistanceOff
    /\ AppOff
    /\ DrawioOff

NextShapes ==
    \/ DetectSkipStroke
    \/ DetectPushShape
    \/ DetectShapesReturn

SpecShapes == InitShapes /\ [][NextShapes]_vars

\* -------------------------------------------- shapes.rs: classify_diagram
\* A String is the sequence of its characters.
TextRegion(id, text, bounds, confidence, font_size_estimate) ==
    [id |-> id, text |-> text, bounds |-> bounds, confidence |-> confidence,
     font_size_estimate |-> font_size_estimate]

\* str::to_lowercase, on the letters A to Z
UpperCase == <<"A", "B", "C", "D", "E", "F", "G", "H", "I", "J", "K", "L", "M", "N", "O", "P", "Q", "R", "S", "T", "U", "V", "W", "X", "Y", "Z">>
LowerCase == <<"a", "b", "c", "d", "e", "f", "g", "h", "i", "j", "k", "l", "m", "n", "o", "p", "q", "r", "s", "t", "u", "v", "w", "x", "y", "z">>
LowerChar(c) ==
    IF \E k \in 1..26 : UpperCase[k] = c
    THEN LowerCase[CHOOSE k \in 1..26 : UpperCase[k] = c]
    ELSE c
to_lowercase(text) == [k \in 1..Len(text) |-> LowerChar(text[k])]

\* The lower-cased texts from position i on, joined by " ".
RECURSIVE JoinLowered(_, _)
JoinLowered(text_regions, i) ==
    IF i > Len(text_regions) THEN <<>>
    ELSE IF i = Len(text_regions) THEN to_lowercase(text_regions[i].text)
    ELSE to_lowercase(text_regions[i].text) \o <<" ">> \o JoinLowered(text_regions, i + 1)

\* str::contains
Contains(haystack, needle) ==
    \E i \in 0..(Len(haystack) - Len(needle)) :
        SubSeq(haystack, i + 1, i + Len(needle)) = needle

flowchart_keywords ==
    <<<<"s", "t", "a", "r", "t">>,
      <<"e", "n", "d">>,
      <<"i", "f">>,
      <<"y", "e", "s">>,
      <<"n", "o">>,
      <<"b", "e", "g", "i", "n">>,
      <<"p", "r", "o", "c", "e", "s", "s">>>>
uml_keywords ==
    <<<<"c", "l", "a", "s", "s">>,
      <<"i", "n", "t", "e", "r", "f", "a", "c", "e">>,
      <<"e", "x", "t", "e", "n", "d", "s">>,
      <<"i", "m", "p", "l", "e", "m", "e", "n", "t", "s">>,
      <<"p", "u", "b", "l", "i", "c">>,
      <<"p", "r", "i", "v", "a", "t", "e">>>>

\* The number of the keywords that the text contains.
TextScore(keywords, text_content) ==
    Cardinality({k \in 1..Len(keywords) : Contains(text_content, keywords[k])})

\* The number of shapes of one of the shape types.
CountOf(shapes, shape_types) ==
    Cardinality({j \in 1..Len(shapes) : shapes[j].shape_type \in shape_types})

RectangleTypes == {"Rectangle"}
DiamondTypes == {"Diamond"}
ArrowTypesWithoutLine == {"Arrow"}
ArrowTypes == {"Arrow", "Line"}
CircleTypes == {"Circle", "Ellipse"}
ConnectorTypes == {"Connector"}

FlowchartConfidenceUncapped(flowchart_text_score, diamond_count, arrow_count, total_shapes) ==
    RAdd(RAdd(Rat(3, 10), RMul(F(flowchart_text_score), Rat(1, 10))),
         RMul(RDiv(F(diamond_count + arrow_count), RMax(F(total_shapes), F(1))),
              Rat(3, 10)))
FlowchartConfidence(flowchart_text_score, diamond_count, arrow_count, total_shapes) ==
    RMin(RAdd(RAdd(Rat(3, 10), RMul(F(flowchart_text_score), Rat(1, 10))),
              RMul(RDiv(F(diamond_count + arrow_count), RMax(F(total_shapes), F(1))),
                   Rat(3, 10))),
         Rat(95, 100))

UmlConfidenceUncapped(uml_text_score) == RAdd(Rat(3, 10), RMul(F(uml_text_score), Rat(15, 100)))
UmlConfidence(uml_text_score) ==
    RMin(RAdd(Rat(3, 10), RMul(F(uml_text_score), Rat(15, 100))), Rat(9, 10))

\* The last three branches of classify_diagram.
BlockConfidenceByCount(rectangle_count, arrow_count, circle_count, connector_count) ==
    IF circle_count > rectangle_count /\ connector_count > 0
    THEN <<"state_diagram", Rat(6, 10)>>
    ELSE IF rectangle_count > 0 /\ arrow_count > 0
    THEN <<"block_diagram", Rat(arrow_count, 2 * arrow_count + 1)>>
    ELSE <<"freeform", Rat(3, 10)>>
StateBlockOrFreeform(rectangle_count, arrow_count, circle_count, connector_count) ==
    IF circle_count > rectangle_count /\ connector_count > 0
    THEN <<"state_diagram", Rat(6, 10)>>
    ELSE IF rectangle_count > 0 /\ arrow_count > 0
    THEN <<"block_diagram", Rat(5, 10)>>
    ELSE <<"freeform", Rat(3, 10)>>

\* The branches of classify_diagram, given the counts and the text scores.
UmlBeforeFlowchart(rectangle_count, diamond_count, arrow_count, circle_count, connector_count, flowchart_text_score, uml_text_score, total_shapes) ==
    IF rectangle_count > 2 /\ arrow_count > 0 /\ uml_text_score > 0
    THEN <<"uml_class", UmlConfidence(uml_text_score)>>
    ELSE IF diamond_count > 0 /\ arrow_count > 0 /\ rectangle_count > 0
    THEN <<"flowchart", FlowchartConfidence(flowchart_text_score, diamond_count,
                                            arrow_count, total_shapes)>>
    ELSE StateBlockOrFreeform(rectangle_count, arrow_count, circle_count, connector_count)
DiagramType(rectangle_count, diamond_count, arrow_count, circle_count, connector_count, flowchart_text_score, uml_text_score, total_shapes) ==
    IF diamond_count > 0 /\ arrow_count > 0 /\ rectangle_count > 0
    THEN <<"flowchart", FlowchartConfidence(flowchart_text_score, diamond_count,
                                            arrow_count, total_shapes)>>
    ELSE IF rectangle_count > 2 /\ arrow_count > 0 /\ uml_text_score > 0
    THEN <<"uml_class", UmlConfidence(uml_text_score)>>
    ELSE StateBlockOrFreeform(rectangle_count, arrow_count, circle_count, connector_count)

classify_diagram(shapes, text_regions) ==
    DiagramType(CountOf(shapes, RectangleTypes), CountOf(shapes, DiamondTypes),
                CountOf(shapes, ArrowTypes), CountOf(shapes, CircleTypes),
                CountOf(shapes, ConnectorTypes),
                TextScore(flowchart_keywords, JoinLowered(text_regions, 1)),
                TextScore(uml_keywords, JoinLowered(text_regions, 1)),
                Len(shapes))

ClassifyDiagram ==
    /\ cd_pc = "idle"
    /\ cd_result' = classify_diagram(cd_shapes, cd_texts)
    /\ cd_pc' = "done"
    /\ UNCHANGED <<cd_shapes, cd_texts>>
    /\ UNCHANGED <<sp_vars, nz_vars, sh_vars, cb_vars, rs_vars, pd_vars, ap_vars, dx_vars>>

\* Inputs of calculate_bounds: coordinates whose range has an exact
\* difference, and -0.002 and 1048.575, whose difference has none.
BoundsXs == {F(0), F(3), Rat(-2, 1000), Rat(1048575, 1000)}
BoundsYs == {F(0), F(1)}
BoundsPoints == {Point(x, y, "None", 0) : x \in BoundsXs, y \in BoundsYs}
BoundsInputs == UNION {[1..n -> BoundsPoints] : n \in 0..MaxBoundsLen}

InitBounds ==
    /\ cb_points \in BoundsInputs
    /\ cb_bounds = [x |-> 0, y |-> 0, width |-> 0, height |-> 0, rotation |-> 0]
    /\ cb_pc = "idle"
    /\ SimplifyOff
    /\ NormalizeOff
    /\ ShapesOff
    /\ DiagramOff
    /\ ResimplifyOff
    /\ DistanceOff
    /\ AppOff
    /\ DrawioOff

NextBounds == CalculateBounds

SpecBounds == InitBounds /\ [][NextBounds]_vars

\* Inputs of classify_diagram. Only the shape type of a shape and the text of
\* a text region are read.
ShapeTypes ==
    {"Rectangle", "Circle", "Ellipse", "Triangle", "Diamond", "Arrow", "Line",
     "Connector", "Freeform"}
ShapeOfType(shape_type) ==
    DetectedShape(0, shape_type, ShapeBounds(0, 0, 0, 0, 0), SCALE, <<"s">>,
                  ShapeProperties(0, 0, NoValue, NoValue, NoValue, NoValue, NoArrowHead))
ShapesOfTypes(shape_types) == [j \in 1..Len(shape_types) |-> ShapeOfType(shape_types[j])]
\* The lists of more than MaxShapes shapes: the uml_class rule needs four.
LongTypeLists ==
    { <<"Rectangle", "Rectangle", "Rectangle", "Arrow">>,
      <<"Rectangle", "Rectangle", "Rectangle", "Line">>,
      <<"Rectangle", "Rectangle", "Rectangle", "Triangle">>,
      <<"Rectangle", "Rectangle", "Rectangle", "Arrow", "Diamond">>,
      <<"Rectangle", "Rectangle", "Rectangle", "Circle", "Circle", "Circle", "Ellipse",
        "Connector", "Arrow">> }
DiagramShapes ==
    {ShapesOfTypes(shape_types) :
        shape_types \in UNION {[1..n -> ShapeTypes] : n \in 0..MaxShapes} \cup LongTypeLists}
Region(text) == TextRegion("t", text, [x |-> 0, y |-> 0, width |-> 0, height |-> 0], SCALE, 12)
DiagramTexts ==
    { << >>,
      << Region(<<"Y", "e", "s">>),
         Region(<<"n", "o">>) >>,
      << Region(<<"S", "T", "A", "R", "T">>) >>,
      << Region(<<"k", "n", "o", "w", " ", "l", "i", "f", "e">>) >>,
      << Region(<<"P", "u", "b", "l", "i", "c", " ", "C", "l", "a", "s", "s", " ", "A", " ", "e", "x", "t", "e", "n", "d", "s", " ", "B">>) >>,
      << Region(<<"s", "t", "a", "r", "t", " ", "e", "n", "d", " ", "i", "f", " ", "y", "e", "s", " ", "n", "o", " ", "b", "e", "g", "i", "n", " ", "p", "r", "o", "c", "e", "s", "s">>) >>,
      << Region(<<"c", "l", "a", "s", "s", " ", "i", "n", "t", "e", "r", "f", "a", "c", "e", " ", "e", "x", "t", "e", "n", "d", "s", " ", "i", "m", "p", "l", "e", "m", "e", "n", "t", "s", " ", "p", "u", "b", "l", "i", "c", " ", "p", "r", "i", "v", "a", "t", "e">>) >>,
      << Region(<<"c", "l">>),
         Region(<<"a", "s", "s">>) >>,
      << Region(<<"I", "n", "t", "e", "r", "f", "a", "c", "e">>) >> }

InitDiagram ==
    /\ cd_shapes \in DiagramShapes
    /\ cd_texts \in DiagramTexts
    /\ cd_result = <<"", F(0)>>
    /\ cd_pc = "idle"
    /\ SimplifyOff
    /\ NormalizeOff
    /\ ShapesOff
    /\ BoundsOff
    /\ ResimplifyOff
    /\ DistanceOff
    /\ AppOff
    /\ DrawioOff

NextDiagram == ClassifyDiagram

SpecDiagram == InitDiagram /\ [][NextDiagram]_vars

\* ---------------------------------------------------------------- drawio.rs
\* generate_xml writes the mxCell elements of the diagram. An element is kept
\* with the attributes the code pushes; an attribute the code does not push
\* is the empty string. Coordinates are whole numbers, for which the f64
\* arithmetic of the code is exact; the geometry is kept as numbers. The
\* elements around the cells (mxfile, diagram, mxGraphModel, root) are the
\* same for every input and are left out.
MxCell(id, value, style, kind, parent, source, target, geometry) ==
    [id |-> id, value |-> value, style |-> style, kind |-> kind, parent |-> parent,
     source |-> source, target |-> target, geometry |-> geometry]

NoGeometry == <<>>

\* write_cell and write_cell_with_parent
write_cell(id, parent, value) == MxCell(id, value, "", "", parent, "", "", NoGeometry)
write_cell_with_parent(id, parent) == MxCell(id, "", "", "", parent, "", "", NoGeometry)

write_shape_cell(id, parent, value, style, x, y, width, height) ==
    MxCell(id, value, style, "vertex", parent, "", "", <<x, y, width, height>>)

write_edge_cell(id, parent, value, style, source, target) ==
    MxCell(id, value, style, "edge", parent, source, target, <<"relative">>)

\* matches!(shape.shape_type, Arrow | Line | Connector)
IsConnector(shape) == shape.shape_type \in {"Arrow", "Line", "Connector"}

\* *cell_id += 1
CellIdKept(cell_id) == cell_id
NextCellId(cell_id) == cell_id + 1

Max(a, b) == IF a >= b THEN a ELSE b

\* labels.join("\\n"): the separator is a backslash followed by n.
RECURSIVE JoinLabels(_)
JoinLabels(labels) ==
    IF Len(labels) = 0 THEN ""
    ELSE IF Len(labels) = 1 THEN labels[1]
    ELSE labels[1] \o "\\n" \o JoinLabels(Tail(labels))

\* The test of find_label_for_shape: the centre of the text lies in the
\* bounds of the shape widened by margin; both sides are doubled, so that
\* width / 2.0 needs no fraction.
TextInShape(text, shape, margin) ==
    LET text_cx2 == 2 * text.bounds.x + text.bounds.width
        text_cy2 == 2 * text.bounds.y + text.bounds.height
    IN  /\ text_cx2 >= 2 * (shape.bounds.x - margin)
        /\ text_cx2 <= 2 * (shape.bounds.x + shape.bounds.width + margin)
        /\ text_cy2 >= 2 * (shape.bounds.y - margin)
        /\ text_cy2 <= 2 * (shape.bounds.y + shape.bounds.height + margin)

find_label_for_shape(shape, text_regions) ==
    LET inside == SelectSeq(text_regions, LAMBDA text : TextInShape(text, shape, 20))
    IN  JoinLabels([k \in 1..Len(inside) |-> inside[k].text])

get_style_for_shape(shape_type) ==
    CASE shape_type = "Rectangle" -> "rounded=1;whiteSpace=wrap;html=1;fillColor=#dae8fc;strokeColor=#6c8ebf;"
      [] shape_type = "Diamond" -> "rhombus;whiteSpace=wrap;html=1;fillColor=#fff2cc;strokeColor=#d6b656;"
      [] shape_type = "Circle" -> "ellipse;whiteSpace=wrap;html=1;aspect=fixed;fillColor=#d5e8d4;strokeColor=#82b366;"
      [] shape_type = "Ellipse" -> "ellipse;whiteSpace=wrap;html=1;fillColor=#d5e8d4;strokeColor=#82b366;"
      [] shape_type = "Triangle" -> "triangle;whiteSpace=wrap;html=1;fillColor=#ffe6cc;strokeColor=#d79b00;"
      [] shape_type = "Freeform" -> "shape=curlyBracket;whiteSpace=wrap;html=1;"
      [] OTHER -> "rounded=0;whiteSpace=wrap;html=1;fillColor=#dae8fc;strokeColor=#6c8ebf;"

get_connector_style(shape_type) ==
    CASE shape_type = "Line" -> "edgeStyle=orthogonalEdgeStyle;rounded=0;orthogonalLoop=1;jettySize=auto;html=1;endArrow=none;"
      [] OTHER -> "edgeStyle=orthogonalEdgeStyle;rounded=0;orthogonalLoop=1;jettySize=auto;html=1;endArrow=classic;endFill=1;"

\* HashMap<String, String>: a function on the keys inserted so far.
EmptyMap == <<>>
Insert(map, key, value) == (key :> value) @@ map

\* What write_shapes and write_connectors leave behind: the cells written so
\* far, the cell id counter and the id map.
Written(cells, cell_id, id_map) == [cells |-> cells, cell_id |-> cell_id, id_map |-> id_map]

\* The loop of write_shapes over shapes[i..].
RECURSIVE write_shapes(_, _, _, _)
write_shapes(shapes, text_regions, i, w) ==
    IF i > Len(shapes) THEN w
    ELSE IF IsConnector(shapes[i]) THEN write_shapes(shapes, text_regions, i + 1, w)
    ELSE LET current_id == ToString(w.cell_id)
             shape == shapes[i]
             cell == write_shape_cell(current_id, "1",
                                      find_label_for_shape(shape, text_regions),
                                      get_style_for_shape(shape.shape_type),
                                      shape.bounds.x, shape.bounds.y,
                                      Max(shape.bounds.width, 80),
                                      Max(shape.bounds.height, 40))
         IN  write_shapes(shapes, text_regions, i + 1,
                          Written(Append(w.cells, cell), NextCellId(w.cell_id),
                                  Insert(w.id_map, shape.id, current_id)))

point_near_shape(px, py, shape, threshold) ==
    LET in_x == /\ px >= shape.bounds.x - threshold
                /\ px <= shape.bounds.x + shape.bounds.width + threshold
        in_y == /\ py >= shape.bounds.y - threshold
                /\ py <= shape.bounds.y + shape.bounds.height + threshold
    IN  in_x /\ in_y

\* One pass of the loop of find_connection_endpoints: the id an endpoint has
\* after shape was looked at.
EndpointAfter(point, shape, id_map, found) ==
    IF /\ ~IsConnector(shape)
       /\ shape.id \in DOMAIN id_map
       /\ point.some
       /\ point_near_shape(point.v[1], point.v[2], shape, 30)
       /\ ~found.some
    THEN Value(id_map[shape.id])
    ELSE found

\* The loop of find_connection_endpoints over all_shapes[i..]; the result is
\* (source_id, target_id).
RECURSIVE find_connection_endpoints(_, _, _, _, _)
find_connection_endpoints(connector, all_shapes, id_map, i, ids) ==
    IF i > Len(all_shapes) THEN ids
    ELSE find_connection_endpoints(connector, all_shapes, id_map, i + 1,
             <<EndpointAfter(connector.properties.start_point, all_shapes[i], id_map, ids[1]),
               EndpointAfter(connector.properties.end_point, all_shapes[i], id_map, ids[2])>>)

\* Option<String>::unwrap_or_default
unwrap_or_default(id) == IF id.some THEN id.v ELSE ""

\* The loop of write_connectors over shapes[i..].
RECURSIVE write_connectors(_, _, _)
write_connectors(shapes, i, w) ==
    IF i > Len(shapes) THEN w
    ELSE IF ~IsConnector(shapes[i]) THEN write_connectors(shapes, i + 1, w)
    ELSE LET ids == find_connection_endpoints(shapes[i], shapes, w.id_map, 1,
                                              <<NoValue, NoValue>>)
             cell == write_edge_cell(ToString(w.cell_id), "1", "",
                                     get_connector_style(shapes[i].shape_type),
                                     unwrap_or_default(ids[1]),
                                     unwrap_or_default(ids[2]))
         IN  write_connectors(shapes, i + 1,
                              Written(Append(w.cells, cell), NextCellId(w.cell_id), w.id_map))

\* The mxCell elements generate_xml writes, in order.
generate_xml(shapes, text_regions) ==
    LET default_cells == <<write_cell("0", "", ""), write_cell_with_parent("1", "0")>>
        vertices == write_shapes(shapes, text_regions, 1, Written(default_cells, 2, EmptyMap))
    IN  write_connectors(shapes, 1, vertices).cells

\* A call of generate_xml(shapes, text_regions, options).
GenerateXml ==
    /\ dx_pc = "idle"
    /\ dx_xml' = generate_xml(dx_shapes, dx_text)
    /\ dx_pc' = "done"
    /\ UNCHANGED <<dx_shapes, dx_text>>
    /\ UNCHANGED <<sp_vars, nz_vars, sh_vars, cb_vars, cd_vars, rs_vars, pd_vars, ap_vars>>

\* The shapes of the inputs: two blocks side by side, a diamond below them,
\* an arrow from the first block to the second, a line from the second block
\* to the diamond, a line far from every block, and a connector without a
\* start point that ends in the first block.
DrawioShape(id, shape_type, x, y, width, height, start_point, end_point) ==
    DetectedShape(id, shape_type, ShapeBounds(x, y, width, height, 0), SCALE, <<id>>,
                  ShapeProperties(x, y, NoValue, start_point, end_point, NoValue, NoArrowHead))

DrawioShapeKinds ==
    {<<"Rectangle", 0, 0, 100, 50, Value(<<0, 0>>), Value(<<0, 0>>)>>,
     <<"Circle", 200, 0, 50, 50, Value(<<250, 25>>), Value(<<250, 25>>)>>,
     <<"Diamond", 100, 200, 100, 20, Value(<<150, 200>>), Value(<<150, 200>>)>>,
     <<"Arrow", 100, 25, 100, 0, Value(<<100, 25>>), Value(<<200, 25>>)>>,
     <<"Line", 150, 50, 75, 150, Value(<<225, 50>>), Value(<<150, 200>>)>>,
     <<"Line", 500, 500, 10, 10, Value(<<500, 500>>), Value(<<510, 510>>)>>,
     <<"Connector", 0, 0, 0, 0, NoValue, Value(<<0, 0>>)>>}

DrawioIds == {"a", "b", "c"}

DrawioShapes ==
    {DrawioShape(id, k[1], k[2], k[3], k[4], k[5], k[6], k[7]) :
        id \in DrawioIds, k \in DrawioShapeKinds}

\* Two texts inside the first block, or none.
DrawioTexts ==
    {<<>>,
     <<TextRegion("t1", "Start", [x |-> 10, y |-> 10, width |-> 20, height |-> 10], SCALE, 10),
       TextRegion("t2", "here", [x |-> 10, y |-> 30, width |-> 30, height |-> 10], SCALE, 10)>>}

InitDrawio ==
    /\ dx_shapes \in UNION {[1..n -> DrawioShapes] : n \in 0..MaxDrawioShapes}
    /\ dx_text \in DrawioTexts
    /\ dx_xml = <<>>
    /\ dx_pc = "idle"
    /\ SimplifyOff
    /\ NormalizeOff
    /\ ShapesOff
    /\ BoundsOff
    /\ DiagramOff
    /\ ResimplifyOff
    /\ DistanceOff
    /\ AppOff

NextDrawio == GenerateXml

SpecDrawio == InitDrawio /\ [][NextDrawio]_vars

\* ------------------------------------------------------------------ main.rs
\* The commands of main.rs run as concurrent tasks that share AppState. Every
\* task runs one command at a time. A step of a command is a mutex
\* acquisition, which waits while another task holds the mutex, together with
\* the code that follows it up to the next acquisition or the return; a guard
\* is dropped where its scope ends. A command that fails on its input before
\* its first acquisition has a step of its own for that.
\* detected_shapes and ocr_text are modelled by the number of the
\* process_canvas call that stored them, 0 standing for the empty vector.
Tasks == 1..NumTasks
Mutexes == {"strokes", "detected_shapes", "ocr_text", "llm_config"}
Free == 0

\* state.<mutex>.lock() by task p, and the drop of guards.
Lock(owner, mutex, p) == [owner EXCEPT ![mutex] = p]
Drop(owner, mutexes) == [m \in Mutexes |-> IF m \in mutexes THEN Free ELSE owner[m]]
Goto(p, label) == ap_pc' = [ap_pc EXCEPT ![p] = label]

\* A task runs no command: it has run none, or its last one has returned,
\* with Ok ("idle") or with Err, where the Err of a command that could not
\* decode, load, open, decompress or deserialize its input is told apart.
ReturnedErr == "idle after Err"
InvalidInput == "idle after Err: invalid input"
AtRest(p) == ap_pc[p] \in {"idle", ReturnedErr, InvalidInput}

\* The mutexes generate_drawio locks, in the order it locks them.
GenerateDrawioLocksReversed == <<"ocr_text", "detected_shapes">>
GenerateDrawioLocks == <<"detected_shapes", "ocr_text">>

add_stroke(p) ==
    /\ AtRest(p)
    /\ ap_strokes < MaxAppStrokes
    /\ ap_owner["strokes"] = Free
    /\ ap_strokes' = ap_strokes + 1
    /\ Goto(p, "idle")
    /\ UNCHANGED <<ap_owner, ap_shapes, ap_text, ap_llm, ap_calls, ap_seen>>
    /\ UNCHANGED <<sp_vars, nz_vars, sh_vars, cb_vars, cd_vars, rs_vars, pd_vars, dx_vars>>

\* The three guards live until clear_strokes returns.
clear_strokes(p) ==
    /\ \/ /\ AtRest(p)
          /\ ap_owner["strokes"] = Free
          /\ ap_owner' = Lock(ap_owner, "strokes", p)
          /\ ap_strokes' = 0
          /\ Goto(p, "clear_strokes: lock detected_shapes")
          /\ UNCHANGED <<ap_shapes, ap_text>>
       \/ /\ ap_pc[p] = "clear_strokes: lock detected_shapes"
          /\ ap_owner["detected_shapes"] = Free
          /\ ap_owner' = Lock(ap_owner, "detected_shapes", p)
          /\ ap_shapes' = 0
          /\ Goto(p, "clear_strokes: lock ocr_text")
          /\ UNCHANGED <<ap_strokes, ap_text>>
       \/ /\ ap_pc[p] = "clear_strokes: lock ocr_text"
          /\ ap_owner["ocr_text"] = Free
          /\ ap_text' = 0
          /\ ap_owner' = Drop(ap_owner, {"strokes", "detected_shapes", "ocr_text"})
          /\ Goto(p, "idle")
          /\ UNCHANGED <<ap_strokes, ap_shapes>>
    /\ UNCHANGED <<ap_llm, ap_calls, ap_seen>>
    /\ UNCHANGED <<sp_vars, nz_vars, sh_vars, cb_vars, cd_vars, rs_vars, pd_vars, dx_vars>>

get_strokes(p) ==
    /\ \/ /\ AtRest(p)
          /\ ap_owner["strokes"] = Free
          /\ ap_owner' = Lock(ap_owner, "strokes", p)
          /\ Goto(p, "get_strokes: clone")
       \/ /\ ap_pc[p] = "get_strokes: clone"
          /\ ap_owner' = Drop(ap_owner, {"strokes"})
          /\ Goto(p, "idle")
    /\ UNCHANGED <<ap_strokes, ap_shapes, ap_text, ap_llm, ap_calls, ap_seen>>
    /\ UNCHANGED <<sp_vars, nz_vars, sh_vars, cb_vars, cd_vars, rs_vars, pd_vars, dx_vars>>

\* The process_canvas calls that have not locked strokes yet.
CanvasCallLabels == {"process_canvas: decode", "process_canvas: lock strokes"}

\* The image is decoded and loaded before any mutex is locked; image_valid
\* tells whether both succeed. The guard of strokes lives until
\* process_canvas returns, the other two for their blocks.
process_canvas(p) ==
    /\ \/ /\ AtRest(p)
          /\ ap_calls + Cardinality({q \in Tasks : ap_pc[q] \in CanvasCallLabels})
                 < MaxCanvasCalls
          /\ Goto(p, "process_canvas: decode")
          /\ UNCHANGED <<ap_owner, ap_shapes, ap_text, ap_calls>>
       \/ /\ ap_pc[p] = "process_canvas: decode"
          /\ \E image_valid \in BOOLEAN :
                 IF image_valid
                 THEN Goto(p, "process_canvas: lock strokes")
                 ELSE Goto(p, InvalidInput)
          /\ UNCHANGED <<ap_owner, ap_shapes, ap_text, ap_calls>>
       \/ /\ ap_pc[p] = "process_canvas: lock strokes"
          /\ ap_owner["strokes"] = Free
          /\ ap_owner' = Lock(ap_owner, "strokes", p)
          /\ ap_calls' = ap_calls + 1
          /\ Goto(p, "process_canvas: lock detected_shapes")
          /\ UNCHANGED <<ap_shapes, ap_text>>
       \/ /\ ap_pc[p] = "process_canvas: lock detected_shapes"
          /\ ap_owner["detected_shapes"] = Free
          /\ ap_shapes' = ap_calls
          /\ Goto(p, "process_canvas: lock ocr_text")
          /\ UNCHANGED <<ap_owner, ap_text, ap_calls>>
       \/ /\ ap_pc[p] = "process_canvas: lock ocr_text"
          /\ ap_owner["ocr_text"] = Free
          /\ ap_text' = ap_calls
          /\ ap_owner' = Drop(ap_owner, {"strokes"})
          /\ Goto(p, "idle")
          /\ UNCHANGED <<ap_shapes, ap_calls>>
    /\ UNCHANGED <<ap_strokes, ap_llm, ap_seen>>
    /\ UNCHANGED <<sp_vars, nz_vars, sh_vars, cb_vars, cd_vars, rs_vars, pd_vars, dx_vars>>

\* Every clone is taken under a guard of its own; no guard is held across the
\* await of llm::enhance_diagram.
enhance_with_llm(p) ==
    /\ \/ /\ AtRest(p)
          /\ ap_owner["detected_shapes"] = Free
          /\ ap_seen' = [ap_seen EXCEPT ![p] = <<ap_shapes, 0>>]
          /\ Goto(p, "enhance_with_llm: lock ocr_text")
       \/ /\ ap_pc[p] = "enhance_with_llm: lock ocr_text"
          /\ ap_owner["ocr_text"] = Free
          /\ ap_seen' = [ap_seen EXCEPT ![p] = <<ap_seen[p][1], ap_text>>]
          /\ Goto(p, "enhance_with_llm: lock llm_config")
       \/ /\ ap_pc[p] = "enhance_with_llm: lock llm_config"
          /\ ap_owner["llm_config"] = Free
          /\ Goto(p, "enhance_with_llm: await")
          /\ UNCHANGED ap_seen
       \/ /\ ap_pc[p] = "enhance_with_llm: await"
          /\ ap_seen' = [ap_seen EXCEPT ![p] = <<0, 0>>]
          /\ \E answered \in BOOLEAN : Goto(p, IF answered THEN "idle" ELSE ReturnedErr)
    /\ UNCHANGED <<ap_owner, ap_strokes, ap_shapes, ap_text, ap_llm, ap_calls>>
    /\ UNCHANGED <<sp_vars, nz_vars, sh_vars, cb_vars, cd_vars, rs_vars, pd_vars, dx_vars>>

\* generate_drawio, also as export_drawio_file calls it before it writes the
\* file: both guards are held while generate_xml runs.
generate_drawio(p) ==
    /\ \/ /\ AtRest(p)
          /\ ap_owner[GenerateDrawioLocks[1]] = Free
          /\ ap_owner' = Lock(ap_owner, GenerateDrawioLocks[1], p)
          /\ Goto(p, "generate_drawio: lock second")
       \/ /\ ap_pc[p] = "generate_drawio: lock second"
          /\ ap_owner[GenerateDrawioLocks[2]] = Free
          /\ ap_owner' = Lock(ap_owner, GenerateDrawioLocks[2], p)
          /\ Goto(p, "generate_drawio: generate_xml")
       \/ /\ ap_pc[p] = "generate_drawio: generate_xml"
          /\ ap_owner' = Drop(ap_owner, {"detected_shapes", "ocr_text"})
          /\ Goto(p, "idle")
    /\ UNCHANGED <<ap_strokes, ap_shapes, ap_text, ap_llm, ap_calls, ap_seen>>
    /\ UNCHANGED <<sp_vars, nz_vars, sh_vars, cb_vars, cd_vars, rs_vars, pd_vars, dx_vars>>

configure_llm(p) ==
    /\ AtRest(p)
    /\ ap_owner["llm_config"] = Free
    /\ \E config \in {0, 1} : ap_llm' = config
    /\ Goto(p, "idle")
    /\ UNCHANGED <<ap_owner, ap_strokes, ap_shapes, ap_text, ap_calls, ap_seen>>
    /\ UNCHANGED <<sp_vars, nz_vars, sh_vars, cb_vars, cd_vars, rs_vars, pd_vars, dx_vars>>

\* The guard is held until save_backup returns, Ok or Err.
save_backup(p) ==
    /\ \/ /\ AtRest(p)
          /\ ap_owner["strokes"] = Free
          /\ ap_owner' = Lock(ap_owner, "strokes", p)
          /\ Goto(p, "save_backup: write")
       \/ /\ ap_pc[p] = "save_backup: write"
          /\ ap_owner' = Drop(ap_owner, {"strokes"})
          /\ \E written \in BOOLEAN : Goto(p, IF written THEN "idle" ELSE ReturnedErr)
    /\ UNCHANGED <<ap_strokes, ap_shapes, ap_text, ap_llm, ap_calls, ap_seen>>
    /\ UNCHANGED <<sp_vars, nz_vars, sh_vars, cb_vars, cd_vars, rs_vars, pd_vars, dx_vars>>

\* The file is opened, decompressed and deserialized before strokes is
\* locked; file_valid tells whether all three succeed.
LoadBackupReadClears(p, file_valid) ==
    IF file_valid
    THEN Goto(p, "load_backup: lock strokes") /\ UNCHANGED ap_strokes
    ELSE Goto(p, InvalidInput) /\ ap_strokes' = 0

LoadBackupRead(p, file_valid) ==
    IF file_valid
    THEN Goto(p, "load_backup: lock strokes") /\ UNCHANGED ap_strokes
    ELSE Goto(p, InvalidInput) /\ UNCHANGED ap_strokes

load_backup(p) ==
    /\ \/ /\ AtRest(p)
          /\ Goto(p, "load_backup: read")
          /\ UNCHANGED ap_strokes
       \/ /\ ap_pc[p] = "load_backup: read"
          /\ \E file_valid \in BOOLEAN : LoadBackupRead(p, file_valid)
       \/ /\ ap_pc[p] = "load_backup: lock strokes"
          /\ ap_owner["strokes"] = Free
          /\ \E strokes \in 0..MaxAppStrokes : ap_strokes' = strokes
          /\ Goto(p, "idle")
    /\ UNCHANGED <<ap_owner, ap_shapes, ap_text, ap_llm, ap_calls, ap_seen>>
    /\ UNCHANGED <<sp_vars, nz_vars, sh_vars, cb_vars, cd_vars, rs_vars, pd_vars, dx_vars>>

\* AppState::default()
InitApp ==
    /\ ap_pc = [p \in Tasks |-> "idle"]
    /\ ap_owner = [m \in Mutexes |-> Free]
    /\ ap_strokes = 0
    /\ ap_shapes = 0
    /\ ap_text = 0
    /\ ap_llm = 0
    /\ ap_calls = 0
    /\ ap_seen = [p \in Tasks |-> <<0, 0>>]
    /\ SimplifyOff
    /\ NormalizeOff
    /\ ShapesOff
    /\ BoundsOff
    /\ DiagramOff
    /\ ResimplifyOff
    /\ DistanceOff
    /\ DrawioOff

NextApp ==
    \E p \in Tasks :
        \/ add_stroke(p)
        \/ clear_strokes(p)
        \/ get_strokes(p)
        \/ process_canvas(p)
        \/ enhance_with_llm(p)
        \/ generate_drawio(p)
        \/ configure_llm(p)
        \/ save_backup(p)
        \/ load_backup(p)

SpecApp == InitApp /\ [][NextApp]_vars

\* The mutex a task at the label waits for, or "none".
Awaited(label) ==
    CASE label \in {"clear_strokes: lock detected_shapes",
                     "process_canvas: lock detected_shapes"} -> "detected_shapes"
      [] label \in {"clear_strokes: lock ocr_text", "process_canvas: lock ocr_text",
                     "enhance_with_llm: lock ocr_text"} -> "ocr_text"
      [] label \in {"process_canvas: lock strokes", "load_backup: lock strokes"} -> "strokes"
      [] label = "enhance_with_llm: lock llm_config" -> "llm_config"
      [] label = "generate_drawio: lock second" -> GenerateDrawioLocks[2]
      [] OTHER -> "none"

\* A command that has started takes its next step: the scheduler does not
\* leave a task that can run, again and again, unscheduled for ever.
Proceed(p) ==
    /\ ~AtRest(p)
    /\ \/ clear_strokes(p)
       \/ get_strokes(p)
       \/ process_canvas(p)
       \/ enhance_with_llm(p)
       \/ generate_drawio(p)
       \/ save_backup(p)
       \/ load_backup(p)

SpecAppLive == SpecApp /\ \A p \in Tasks : SF_vars(Proceed(p))

\* C1: whenever simplify_stroke returns for a non-empty point sequence, the
\* result starts with the first input point, ends with the last input point
\* and is no longer than the input.
C1_EndpointsKept ==
    (sp_pc = "done" /\ Len(sp_points) > 0) =>
        /\ Len(SimplifyResult) >= 1
        /\ SimplifyResult[1] = sp_points[1]
        /\ SimplifyResult[Len(SimplifyResult)] = sp_points[Len(sp_points)]
        /\ Len(SimplifyResult) <= Len(sp_points)

\* A stroke of at least 3 points went through douglas_peucker and lost points.
C1_Witness ==
    /\ sp_pc = "done"
    /\ Len(sp_points) >= 3
    /\ Len(SimplifyResult) < Len(sp_points)

\* C2: the result of simplify_stroke is an order-preserving subsequence of the
\* input: the positions its points were taken from are input positions and are
\* strictly increasing, so no position (the junction included) is emitted twice.
C2_Subsequence ==
    (sp_pc = "done") =>
        /\ \A k \in 1..Len(sp_result) : sp_result[k] \in 1..Len(sp_points)
        /\ \A k \in 1..(Len(sp_result) - 1) : sp_result[k] < sp_result[k + 1]

\* Both recursive halves were joined and an interior point was kept.
C2_Witness ==
    /\ sp_pc = "done"
    /\ Len(sp_points) = MaxLen
    /\ Len(sp_result) >= 3
    /\ Len(sp_result) < Len(sp_points)

\* C3: simplify_stroke terminates for every input: the call stack is never
\* exhausted, and every recursive call of douglas_peucker is on a slice strictly
\* shorter than its caller's.
C3_Terminates ==
    /\ sp_pc # "overflow"
    /\ \A k \in 2..Len(sp_stack) : SliceLen(sp_stack[k]) < SliceLen(sp_stack[k - 1])

\* ------------------------------------------- properties of the stroke lists
\* The positions <<i, k>> of the points of a stroke list, and its coordinates.
Positions(strokes) ==
    UNION {{<<i, k>> : k \in 1..Len(strokes[i].points)} : i \in 1..Len(strokes)}
At(strokes, pos) == strokes[pos[1]].points[pos[2]]
Xs(strokes) == {At(strokes, pos).x : pos \in Positions(strokes)}
Ys(strokes) == {At(strokes, pos).y : pos \in Positions(strokes)}
SetMin(S) == CHOOSE m \in S : \A v \in S : RLe(m, v)
SetMax(S) == CHOOSE m \in S : \A v \in S : RGe(m, v)
Extent(S) == RSub(SetMax(S), SetMin(S))
\* The union bounding box has non-zero width and non-zero height.
NonDegenerate(strokes) == Cardinality(Xs(strokes)) > 1 /\ Cardinality(Ys(strokes)) > 1
InnerWidth == RSub(nz_target.target_width, RMul(F(2), nz_target.padding))
InnerHeight == RSub(nz_target.target_height, RMul(F(2), nz_target.padding))

\* C4: normalize_strokes returns its input unchanged whenever the stroke list is
\* empty or the union bounding box of all points has zero width or zero height,
\* a non-empty list whose strokes hold no points included.
C4_DegenerateUnchanged ==
    (nz_pc = "normalized" /\ ~NonDegenerate(nz_strokes)) => nz_out = nz_strokes

C7_FrameOfOutput ==
    (nz_pc = "normalized") =>
        /\ Len(nz_out) = Len(nz_strokes)
        /\ \A i \in 1..Len(nz_strokes) :
               /\ nz_out[i].id = nz_strokes[i].id
               /\ nz_out[i].color = nz_strokes[i].color
               /\ nz_out[i].tool = nz_strokes[i].tool
               /\ Len(nz_out[i].points) = Len(nz_strokes[i].points)
               /\ \A k \in 1..Len(nz_strokes[i].points) :
                      /\ nz_out[i].points[k].pressure = nz_strokes[i].points[k].pressure
                      /\ nz_out[i].points[k].timestamp = nz_strokes[i].points[k].timestamp

\* C7: ... and the caller's strokes are not modified by the call.
C7_Frame == [](C7_FrameOfOutput) /\ [][nz_strokes' = nz_strokes]_vars

\* Strokes carrying a pressure value were rescaled.
C7_Witness ==
    /\ nz_pc = "normalized"
    /\ nz_out # nz_strokes
    /\ \E pos \in Positions(nz_strokes) : At(nz_strokes, pos).pressure # "None"

\* C8: calculate_bounding_box returns None exactly for the empty stroke list;
\* otherwise min_x, min_y are lower and max_x, max_y upper bounds of the
\* coordinates of all points, each attained by a point when there is one.
C8_BoundingBox ==
    (nz_pc = "bbox") =>
        /\ nz_bbox.some <=> Len(nz_strokes) > 0
        /\ nz_bbox.some =>
              /\ \A pos \in Positions(nz_strokes) :
                     /\ RLe(nz_bbox.min_x, At(nz_strokes, pos).x)
                     /\ RLe(nz_bbox.min_y, At(nz_strokes, pos).y)
                     /\ RGe(nz_bbox.max_x, At(nz_strokes, pos).x)
                     /\ RGe(nz_bbox.max_y, At(nz_strokes, pos).y)
              /\ Positions(nz_strokes) # {} =>
                     /\ nz_bbox.min_x \in Xs(nz_strokes)
                     /\ nz_bbox.max_x \in Xs(nz_strokes)
                     /\ nz_bbox.min_y \in Ys(nz_strokes)
                     /\ nz_bbox.max_y \in Ys(nz_strokes)

\* The box of two strokes that both hold points was computed.
C8_Witness ==
    /\ nz_pc = "bbox"
    /\ nz_bbox.some
    /\ Len(nz_strokes) = 2
    /\ \A i \in 1..2 : Len(nz_strokes[i].points) > 0
    /\ RLt(nz_bbox.min_x, nz_bbox.max_x)


\* ------------------------------------------------ properties of detect_shapes
\* The positions, in order, of the first n strokes that have at least 5 points.
WithFivePoints(strokes, n) ==
    SelectSeq([k \in 1..n |-> k], LAMBDA k : Len(strokes[k].points) >= 5)

\* C9: detect_shapes emits exactly one shape for every stroke with at least 5
\* points and none for a shorter stroke, in the order of the strokes; the
\* stroke_ids of a shape is the one-element list of its stroke's id; and the
\* empty list of strokes gives the empty list of shapes. The same holds of the
\* strokes the loop has visited so far.
C9_OneShapePerStroke ==
    sh_pc \in {"loop", "done"} =>
        LET kept == WithFivePoints(sh_strokes, sh_i)
        IN  /\ Len(sh_shapes) = Len(kept)
            /\ \A j \in 1..Len(kept) :
                   sh_shapes[j].stroke_ids = <<sh_strokes[kept[j]].id>>
            /\ (sh_pc = "done" => sh_i = Len(sh_strokes))
            /\ (sh_strokes = <<>> => sh_shapes = <<>>)

\* detect_shapes has returned for a list in which a stroke of fewer than 5
\* points comes before a stroke of at least 5 points.
C9_Witness ==
    /\ sh_pc = "done"
    /\ Len(sh_strokes) = 2
    /\ Len(sh_strokes[1].points) \in 1..4
    /\ Len(sh_strokes[2].points) >= 5
    /\ Len(sh_shapes) = 1
    /\ sh_shapes[1].stroke_ids = <<sh_strokes[2].id>>

\* C10: every shape detect_shapes produces has a confidence between 0 and 1,
\* whichever branch of the classifier produced it.
C10_ConfidenceInUnitInterval ==
    \A j \in 1..Len(sh_shapes) :
        sh_shapes[j].confidence >= 0 /\ sh_shapes[j].confidence <= SCALE

\* detect_shapes has returned shapes of all eight kinds the classifier
\* produces, one of them with the confidence 1 and one with less.
C10_Witness ==
    /\ sh_pc = "done"
    /\ {sh_shapes[j].shape_type : j \in 1..Len(sh_shapes)} =
           {"Circle", "Diamond", "Rectangle", "Triangle", "Freeform", "Arrow",
            "Line", "Connector"}
    /\ \E j \in 1..Len(sh_shapes) : sh_shapes[j].confidence = SCALE
    /\ \E j \in 1..Len(sh_shapes) : sh_shapes[j].confidence < SCALE
    /\ C10_ConfidenceInUnitInterval

\* ------------------------------------------- properties of calculate_bounds
\* C11: for a non-empty point sequence, calculate_bounds returns the least
\* coordinates as x and y, and every point p has x <= p.x <= x + width and
\* y <= p.y <= y + height, the sums being f64 sums.
C11_BoundsContainPoints ==
    (cb_pc = "done" /\ Len(cb_points) > 0) =>
        /\ \E k \in 1..Len(cb_points) : FX(cb_points[k]) = cb_bounds.x
        /\ \E k \in 1..Len(cb_points) : FY(cb_points[k]) = cb_bounds.y
        /\ \A k \in 1..Len(cb_points) :
               /\ cb_bounds.x <= FX(cb_points[k])
               /\ FX(cb_points[k]) <= RoundF(cb_bounds.x + cb_bounds.width)
               /\ cb_bounds.y <= FY(cb_points[k])
               /\ FY(cb_points[k]) <= RoundF(cb_bounds.y + cb_bounds.height)

\* ------------------------------------------ properties of the classifier
\* The first match of the sequence of C12, given the features of a stroke.
FirstMatch(closed, circularity, rectangularity, diamond, triangle_score, straightness, arrow) ==
    IF closed /\ circularity > 850 THEN <<"Circle", circularity>>
    ELSE IF closed /\ rectangularity > 800 /\ diamond
    THEN <<"Diamond", FMul(950, rectangularity)>>
    ELSE IF closed /\ rectangularity > 800 THEN <<"Rectangle", rectangularity>>
    ELSE IF closed /\ triangle_score > 750 THEN <<"Triangle", triangle_score>>
    ELSE IF closed THEN <<"Freeform", 500>>
    ELSE IF straightness > 950 /\ arrow THEN <<"Arrow", FMul(950, straightness)>>
    ELSE IF straightness > 950 THEN <<"Line", straightness>>
    ELSE <<"Connector", 600>>

\* The first match for the features of the points, given bounds and center.
FirstMatchAbout(points, bounds, center) ==
    FirstMatch(is_stroke_closed(points, FMul(Max2(bounds.width, bounds.height), 100)),
               calculate_circularity(points, center),
               calculate_rectangularity(points, bounds),
               check_diamond(points, center),
               calculate_triangle_score(points),
               calculate_straightness(points),
               detect_arrow_head(points, 30000).some)
FirstMatchOf(points) ==
    FirstMatchAbout(points, calculate_bounds(points), calculate_centroid(points))

\* The stroke the shape at position j of sh_shapes was made from.
StrokeOfShape(j) == sh_strokes[WithFivePoints(sh_strokes, sh_i)[j]]

\* C12: the shape type and the confidence of every shape are the first match
\* of the fixed sequence of rules on the features of its stroke: Circle,
\* Diamond, Rectangle, Triangle, Freeform for a closed stroke, Arrow, Line,
\* Connector for an open one.
C12_FirstMatchWins ==
    \A j \in 1..Len(sh_shapes) :
        <<sh_shapes[j].shape_type, sh_shapes[j].confidence>>
            = FirstMatchOf(StrokeOfShape(j).points)

\* A closed stroke with circularity above 0.85 and rectangularity above 0.80
\* has been classified a Circle.
C12_Witness ==
    /\ sh_pc = "done"
    /\ \E j \in 1..Len(sh_shapes) :
           /\ sh_shapes[j].shape_type = "Circle"
           /\ sh_shapes[j].confidence > 850
           /\ calculate_rectangularity(StrokeOfShape(j).points, sh_shapes[j].bounds) > 800

\* A list of shapes without the freshly generated ids.
WithoutIds(shapes) == [j \in 1..Len(shapes) |-> [shapes[j] EXCEPT !.id = 0]]

\* The shapes of every stroke of the list on its own, one after the other.
RECURSIVE ShapesOneByOne(_, _)
ShapesOneByOne(strokes, i) ==
    IF i > Len(strokes) THEN <<>>
    ELSE WithoutIds(detect_shapes(<<strokes[i]>>)) \o ShapesOneByOne(strokes, i + 1)

\* C13: but for the ids, the shapes of a list of strokes are the shapes of
\* any front part A of it followed by the shapes of the rest B, and the shapes
\* of its strokes taken one by one.
C13_StrokesIndependent ==
    sh_pc = "done" =>
        /\ \A k \in 0..Len(sh_strokes) :
               WithoutIds(sh_shapes) =
                   WithoutIds(detect_shapes(SubSeq(sh_strokes, 1, k)))
                   \o WithoutIds(detect_shapes(SubSeq(sh_strokes, k + 1, Len(sh_strokes))))
        /\ WithoutIds(sh_shapes) = ShapesOneByOne(sh_strokes, 1)

\* detect_shapes has returned two shapes of different kinds for two strokes.
C13_Witness ==
    /\ sh_pc = "done"
    /\ Len(sh_strokes) = 2
    /\ Len(sh_shapes) = 2
    /\ sh_shapes[1].shape_type # sh_shapes[2].shape_type
    /\ WithoutIds(sh_shapes) = ShapesOneByOne(sh_strokes, 1)

\* ------------------------------------------ properties of classify_diagram
\* The label of rules 1 to 5, given the counts and the number of
\* object-oriented keywords in the text.
LabelOfRules(diamonds, arrows, rectangles, circles, connectors, oo_keyword_hits) ==
    IF diamonds > 0 /\ arrows > 0 /\ rectangles > 0 THEN "flowchart"
    ELSE IF rectangles > 2 /\ arrows > 0 /\ oo_keyword_hits > 0 THEN "uml_class"
    ELSE IF circles > rectangles /\ connectors > 0 THEN "state_diagram"
    ELSE IF rectangles > 0 /\ arrows > 0 THEN "block_diagram"
    ELSE "freeform"

\* The numbers of keywords of the two sets in the text classify_diagram was
\* given, and the numbers of shapes it was given.
FlowKeywordHits == TextScore(flowchart_keywords, JoinLowered(cd_texts, 1))
OoKeywordHits == TextScore(uml_keywords, JoinLowered(cd_texts, 1))
Diamonds == CountOf(cd_shapes, {"Diamond"})
Rectangles == CountOf(cd_shapes, {"Rectangle"})
Connectors == CountOf(cd_shapes, {"Connector"})
ArrowsAndLines == CountOf(cd_shapes, {"Arrow", "Line"})
CirclesAndEllipses == CountOf(cd_shapes, {"Circle", "Ellipse"})

\* C14, as claimed: the label is the first match of rules 1 to 5 when arrows
\* counts the Arrow shapes only and circles the Circle shapes only.
C14_ExactTypeCounts ==
    cd_pc = "done" =>
        cd_result[1] = LabelOfRules(Diamonds, CountOf(cd_shapes, {"Arrow"}), Rectangles,
                                    CountOf(cd_shapes, {"Circle"}), Connectors,
                                    OoKeywordHits)

\* C14, amended: the label is the first match of rules 1 to 5 when arrows
\* counts the Arrow and the Line shapes, circles the Circle and the Ellipse
\* shapes, and rectangles, diamonds and connectors the shapes of that type.
C14_LabelByRules ==
    cd_pc = "done" =>
        cd_result[1] = LabelOfRules(Diamonds, ArrowsAndLines, Rectangles,
                                    CirclesAndEllipses, Connectors, OoKeywordHits)

\* A Diamond, a Line and a Rectangle without any Arrow were labelled a
\* flowchart.
C14_Witness ==
    /\ cd_pc = "done"
    /\ Diamonds > 0 /\ Rectangles > 0
    /\ CountOf(cd_shapes, {"Line"}) > 0
    /\ CountOf(cd_shapes, {"Arrow"}) = 0
    /\ cd_result[1] = "flowchart"

\* C15: a flowchart has the confidence
\* min(0.3 + 0.1 flow_keyword_hits + 0.3 (diamonds + arrows) / max(total_shapes, 1), 0.95),
\* arrows being the arrow count of the rules, which lies between 0.3 and 0.95;
\* and one Diamond, one Arrow and one Rectangle with a text that contains
\* "yes" and "no" are a flowchart.
C15_FlowchartConfidence ==
    cd_pc = "done" =>
        /\ cd_result[1] = "flowchart" =>
               /\ cd_result[2] =
                      RMin(RAdd(RAdd(Rat(3, 10), Rat(FlowKeywordHits, 10)),
                                RDiv(F(3 * (Diamonds + ArrowsAndLines)),
                                     F(10 * (IF Len(cd_shapes) > 1 THEN Len(cd_shapes) ELSE 1)))),
                           Rat(95, 100))
               /\ RGe(cd_result[2], Rat(3, 10))
               /\ RLe(cd_result[2], Rat(95, 100))
        /\ ( /\ Len(cd_shapes) = 3
             /\ Diamonds = 1 /\ Rectangles = 1 /\ CountOf(cd_shapes, {"Arrow"}) = 1
             /\ Contains(JoinLowered(cd_texts, 1), <<"y", "e", "s">>)
             /\ Contains(JoinLowered(cd_texts, 1), <<"n", "o">>) )
           => cd_result[1] = "flowchart"

\* One Diamond, one Arrow and one Rectangle with the texts "Yes" and "no" were
\* classified a flowchart of confidence 0.3 + 0.2 + 0.2.
C15_Witness ==
    /\ cd_pc = "done"
    /\ Len(cd_shapes) = 3
    /\ Diamonds = 1 /\ Rectangles = 1 /\ CountOf(cd_shapes, {"Arrow"}) = 1
    /\ FlowKeywordHits = 2
    /\ cd_result = <<"flowchart", Rat(7, 10)>>

C17_FixedConfidence ==
    cd_pc = "done" =>
        /\ cd_result[1] \in {"flowchart", "uml_class", "state_diagram", "block_diagram",
                              "freeform"}
        /\ cd_result[1] = "state_diagram" => cd_result[2] = Rat(6, 10)
        /\ cd_result[1] = "block_diagram" => cd_result[2] = Rat(5, 10)
        /\ cd_result[1] = "freeform" => cd_result[2] = Rat(3, 10)
        /\ (cd_shapes = <<>> /\ cd_texts = <<>>) => cd_result = <<"freeform", Rat(3, 10)>>

\* classify_diagram has returned for no shapes and no text.
C17_Witness ==
    /\ cd_pc = "done"
    /\ cd_shapes = <<>>
    /\ cd_texts = <<>>
    /\ cd_result = <<"freeform", Rat(3, 10)>>

\* --------------------------------------- simplify_stroke applied twice
\* C20, as claimed: among the arguments simplify_stroke is called with there
\* are points and an epsilon for which simplifying the simplified points
\* again, with the same epsilon, returns fewer points.
C20_ShrinksAgain ==
    rs_pc # "off" =>
        \E points \in PointSeqs, epsilon \in Epsilons :
            /\ simplify_stroke(points, epsilon).some
            /\ simplify_stroke(simplify_stroke(points, epsilon).v, epsilon).some
            /\ Len(simplify_stroke(simplify_stroke(points, epsilon).v, epsilon).v)
                   < Len(simplify_stroke(points, epsilon).v)

\* C20, amended: whenever simplify_stroke returns, simplifying what it
\* returned again, with the same epsilon, returns the same points.
C20_Idempotent ==
    /\ rs_pc = "once" => simplify_stroke(rs_once, rs_epsilon).some
    /\ rs_pc = "twice" => rs_twice = rs_once

\* The first call dropped a point and kept an interior one, and the second
\* call has returned.
C20_Witness ==
    /\ rs_pc = "twice"
    /\ Len(rs_once) < Len(rs_points)
    /\ Len(rs_once) >= 3

\* ------------------------------------------ classification of given strokes
\* The points lie on the sides of the square of side 100 at the origin.
OnSquare(points) ==
    \A k \in 1..Len(points) :
        /\ FX(points[k]) \in 0..(100 * SCALE)
        /\ FY(points[k]) \in 0..(100 * SCALE)
        /\ FX(points[k]) \in {0, 100 * SCALE} \/ FY(points[k]) \in {0, 100 * SCALE}

\* The stroke goes from (0,0) through (100,0), (100,100) and (0,100) back to
\* (0,0) along the sides of the square, with further points on the sides.
TracesSquare(points) ==
    /\ Len(points) > 5
    /\ OnSquare(points)
    /\ FX(points[1]) = 0 /\ FY(points[1]) = 0
    /\ FX(points[Len(points)]) = 0 /\ FY(points[Len(points)]) = 0
    /\ \E a, b, c \in 2..(Len(points) - 1) :
           /\ a < b /\ b < c
           /\ FX(points[a]) = 100 * SCALE /\ FY(points[a]) = 0
           /\ FX(points[b]) = 100 * SCALE /\ FY(points[b]) = 100 * SCALE
           /\ FX(points[c]) = 0 /\ FY(points[c]) = 100 * SCALE

\* C18: a closed stroke that traces the square (0,0), (100,0), (100,100),
\* (0,100), (0,0) with further points along its sides is classified Rectangle
\* with a confidence above 0.8.
C18_SquareIsRectangle ==
    \A j \in 1..Len(sh_shapes) :
        TracesSquare(StrokeOfShape(j).points) =>
            /\ sh_shapes[j].shape_type = "Rectangle"
            /\ sh_shapes[j].confidence > 800

\* The whole coordinates of a point.
WholeX(p) == FX(p) \div SCALE
WholeY(p) == FY(p) \div SCALE

\* At least 5 points with whole coordinates on one line, every one farther
\* along the direction from the first to the second than the one before.
OneDirection(points) ==
    /\ Len(points) >= 5
    /\ \A k \in 1..Len(points) : FX(points[k]) % SCALE = 0 /\ FY(points[k]) % SCALE = 0
    /\ LET dx == WholeX(points[2]) - WholeX(points[1])
           dy == WholeY(points[2]) - WholeY(points[1])
       IN  \A k \in 1..(Len(points) - 1) :
               /\ (WholeX(points[k + 1]) - WholeX(points[k])) * dy
                      = (WholeY(points[k + 1]) - WholeY(points[k])) * dx
               /\ (WholeX(points[k + 1]) - WholeX(points[k])) * dx
                      + (WholeY(points[k + 1]) - WholeY(points[k])) * dy > 0

\* C19: a stroke of at least 5 distinct points on one line, visited in one
\* direction, has a straightness above 0.99, is open, has no arrow head and
\* is classified Line with its straightness as confidence.
C19_StraightStrokeIsLine ==
    \A j \in 1..Len(sh_shapes) :
        OneDirection(StrokeOfShape(j).points) =>
            /\ calculate_straightness(StrokeOfShape(j).points) > 990
            /\ ~is_stroke_closed(StrokeOfShape(j).points,
                                 FMul(Max2(sh_shapes[j].bounds.width,
                                           sh_shapes[j].bounds.height), 100))
            /\ ~sh_shapes[j].properties.arrow_head.some
            /\ sh_shapes[j].shape_type = "Line"
            /\ sh_shapes[j].confidence = calculate_straightness(StrokeOfShape(j).points)

\* The ten points from (0,0) to (90,90) have been classified, and so have
\* points on a line towards the left.
C19_Witness ==
    /\ sh_pc = "done"
    /\ \E j \in 1..Len(sh_shapes) :
           /\ OneDirection(StrokeOfShape(j).points)
           /\ Len(StrokeOfShape(j).points) = 10
           /\ FX(StrokeOfShape(j).points[10]) = 90 * SCALE
           /\ FY(StrokeOfShape(j).points[10]) = 90 * SCALE
           /\ sh_shapes[j].shape_type = "Line"
    /\ \E j \in 1..Len(sh_shapes) :
           /\ OneDirection(StrokeOfShape(j).points)
           /\ FX(StrokeOfShape(j).points[2]) < FX(StrokeOfShape(j).points[1])
           /\ sh_shapes[j].shape_type = "Line"

\* ------------------------------------------------ properties of check_diamond
\* Some point lies, seen from the center, within pi/6 of the direction
\* target_angle itself.
PointTowards(points, center, target_angle) ==
    \E k \in 1..Len(points) :
        LET diff == Abs(Atan2(FY(points[k]) - center[2], FX(points[k]) - center[1])
                        - target_angle)
        IN  diff < PI_6 \/ 2 * PI - diff < PI_6

\* C21: check_diamond is true only if, for each of the four directions top,
\* right, bottom and left, some point of the stroke lies within pi/6 of that
\* very direction as seen from the centroid; a point in the opposite
\* direction does not count.
C21_DiamondNeedsAllFourSides ==
    \A j \in 1..Len(sh_shapes) :
        check_diamond(StrokeOfShape(j).points, calculate_centroid(StrokeOfShape(j).points)) =>
            /\ PointTowards(StrokeOfShape(j).points,
                            calculate_centroid(StrokeOfShape(j).points), -HALF_PI)
            /\ PointTowards(StrokeOfShape(j).points,
                            calculate_centroid(StrokeOfShape(j).points), 0)
            /\ PointTowards(StrokeOfShape(j).points,
                            calculate_centroid(StrokeOfShape(j).points), HALF_PI)
            /\ PointTowards(StrokeOfShape(j).points,
                            calculate_centroid(StrokeOfShape(j).points), PI)

\* ------------------------------------------ the two point-to-line distances
\* C22: perpendicular_distance and point_to_line_distance return the distance
\* from the point to the infinite line through the two line points, so 0 for
\* a point on that line, also beyond the two points; for two equal line points
\* they return the distance between the point and that point.
C22_DistanceToInfiniteLine ==
    pd_pc = "done" =>
        LET dx == pd_line_end.x - pd_line_start.x
            dy == pd_line_end.y - pd_line_start.y
            px == pd_point.x - pd_line_start.x
            py == pd_point.y - pd_line_start.y
        IN  IF dx = 0 /\ dy = 0
            THEN /\ pd_canvas = RSqrt(F(px * px + py * py))
                 /\ pd_shapes = FHypot(px * SCALE, py * SCALE)
            ELSE /\ pd_canvas
                      = RSqrt(Rat((px * dy - py * dx) * (px * dy - py * dx), dx * dx + dy * dy))
                 /\ px * dy - py * dx = 0 => (pd_canvas = F(0) /\ pd_shapes = 0)

\* ------------------------------------------------ strokes without an area
\* C23: a closed stroke of at least 5 points whose bounding box has no width
\* or no height has rectangularity 0 and is classified Freeform with
\* confidence 0.5.
C23_FlatClosedStrokeIsFreeform ==
    \A j \in 1..Len(sh_shapes) :
        ( /\ is_stroke_closed(StrokeOfShape(j).points,
                              FMul(Max2(sh_shapes[j].bounds.width,
                                        sh_shapes[j].bounds.height), 100))
          /\ sh_shapes[j].bounds.width = 0 \/ sh_shapes[j].bounds.height = 0 )
        => /\ calculate_rectangularity(StrokeOfShape(j).points, sh_shapes[j].bounds) = 0
           /\ sh_shapes[j].shape_type = "Freeform"
           /\ sh_shapes[j].confidence = 500

\* ------------------------------------------------ properties of the shapes
\* C24: in every shape of detect_shapes the radius is present exactly for a
\* Circle and the arrow head exactly for an Arrow; start_point and end_point
\* are present and are the first and the last point of the stroke;
\* corner_radius is absent and the rotation of the bounds is 0.
C24_OptionalProperties ==
    \A j \in 1..Len(sh_shapes) :
        /\ sh_shapes[j].properties.radius.some <=> sh_shapes[j].shape_type = "Circle"
        /\ sh_shapes[j].properties.arrow_head.some <=> sh_shapes[j].shape_type = "Arrow"
        /\ sh_shapes[j].properties.start_point
               = Value(<<FX(StrokeOfShape(j).points[1]), FY(StrokeOfShape(j).points[1])>>)
        /\ sh_shapes[j].properties.end_point
               = Value(<<FX(StrokeOfShape(j).points[Len(StrokeOfShape(j).points)]),
                         FY(StrokeOfShape(j).points[Len(StrokeOfShape(j).points)])>>)
        /\ ~sh_shapes[j].properties.corner_radius.some
        /\ sh_shapes[j].bounds.rotation = 0

\* detect_shapes has returned a Circle with its radius, an Arrow with its
\* arrow head and a Line with neither.
C24_Witness ==
    /\ sh_pc = "done"
    /\ \E j \in 1..Len(sh_shapes) :
           sh_shapes[j].shape_type = "Circle" /\ sh_shapes[j].properties.radius.some
    /\ \E j \in 1..Len(sh_shapes) :
           sh_shapes[j].shape_type = "Arrow" /\ sh_shapes[j].properties.arrow_head.some
    /\ \E j \in 1..Len(sh_shapes) :
           /\ sh_shapes[j].shape_type = "Line"
           /\ ~sh_shapes[j].properties.radius.some
           /\ ~sh_shapes[j].properties.arrow_head.some

\* ------------------------------------------------ the dropped points
\* The input positions simplify_stroke kept.
KeptPositions == {sp_result[k] : k \in 1..Len(sp_result)}

\* The input position k lies between the kept positions a and b, with no kept
\* position between a and b.
NearestKept(a, k, b) ==
    /\ a \in KeptPositions /\ b \in KeptPositions
    /\ a < k /\ k < b
    /\ \A c \in KeptPositions : ~(a < c /\ c < b)

\* C25: for epsilon >= 0 every input point simplify_stroke dropped lies within
\* epsilon of the segment from the nearest kept point before it to the nearest
\* kept point after it.
C25_DroppedWithinEpsilon ==
    (sp_pc = "done" /\ RGe(sp_epsilon, F(0))) =>
        \A k \in (1..Len(sp_points)) \ KeptPositions :
            \E a, b \in KeptPositions :
                /\ NearestKept(a, k, b)
                /\ RLe(perpendicular_distance(sp_points[k], sp_points[a], sp_points[b]),
                       sp_epsilon)

\* A point off the segment between its kept neighbours was dropped and an
\* interior point was kept.
C25_Witness ==
    /\ sp_pc = "done"
    /\ RGt(sp_epsilon, F(0))
    /\ Len(sp_result) >= 3
    /\ \E k \in (1..Len(sp_points)) \ KeptPositions :
           \E a, b \in KeptPositions :
               /\ NearestKept(a, k, b)
               /\ RGt(perpendicular_distance(sp_points[k], sp_points[a], sp_points[b]), F(0))

\* ------------------------------------------------ the commands of main.rs
\* The order in which the mutexes of AppState are to be locked.
Rank(mutex) ==
    CASE mutex = "strokes" -> 1
      [] mutex = "detected_shapes" -> 2
      [] mutex = "ocr_text" -> 3
      [] mutex = "llm_config" -> 4

Holds(p) == {m \in Mutexes : ap_owner[m] = p}

\* Task p waits for a mutex another task holds.
Blocked(p) ==
    /\ Awaited(ap_pc[p]) # "none"
    /\ ap_owner[Awaited(ap_pc[p])] \notin {Free, p}

\* Some tasks wait for mutexes that tasks among them hold.
Deadlock ==
    \E waiting \in (SUBSET Tasks) \ {{}} :
        \A p \in waiting : Blocked(p) /\ ap_owner[Awaited(ap_pc[p])] \in waiting

\* A task that holds a mutex while it locks another one locks them in the
\* order strokes, detected_shapes, ocr_text.
LockOrderKept ==
    \A p \in Tasks :
        Awaited(ap_pc[p]) # "none" =>
            \A m \in Holds(p) : Rank(m) < Rank(Awaited(ap_pc[p]))

C27_ConsistentSnapshot ==
    \A p \in Tasks :
        /\ ap_pc[p] = "generate_drawio: generate_xml" => ap_shapes = ap_text
        /\ ap_pc[p] \in {"enhance_with_llm: lock llm_config", "enhance_with_llm: await"}
               => ap_seen[p][1] = ap_seen[p][2]

\* C30: when process_canvas fails to decode or load the image, or
\* load_backup fails to open, decompress or deserialize the file, the command
\* returns Err with strokes, detected_shapes and ocr_text as they were when
\* it started: no step of the command has changed them.
C30_ErrLeavesStateUnchanged ==
    [][\A p \in Tasks :
          (ap_pc'[p] = InvalidInput /\ ap_pc[p] # InvalidInput)
          => /\ ap_pc[p] \in {"process_canvas: decode", "load_backup: read"}
             /\ UNCHANGED <<ap_strokes, ap_shapes, ap_text>>]_vars

\* A command has failed on its input while strokes were present and the
\* results of a process_canvas call were stored.
C30_Witness ==
    /\ ap_strokes > 0
    /\ ap_shapes > 0
    /\ ap_text > 0
    /\ \E p \in Tasks : ap_pc[p] = InvalidInput

\* ---------------------------------------------- calculate_bounding_box
\* C29: whenever calculate_bounding_box returns Some((min_x, min_y, max_x,
\* max_y)), min_x <= max_x and min_y <= max_y, also for a non-empty list
\* whose strokes contain no points.
C29_BoxIsOrdered ==
    (nz_pc = "bbox" /\ nz_bbox.some) =>
        /\ RLe(nz_bbox.min_x, nz_bbox.max_x)
        /\ RLe(nz_bbox.min_y, nz_bbox.max_y)

\* ----------------------------------------------------------- generate_xml
DistinctShapeIds ==
    \A i, j \in 1..Len(dx_shapes) : i # j => dx_shapes[i].id # dx_shapes[j].id

\* The shapes write_shapes writes, and those write_connectors writes, each
\* in input order.
VertexShapes == SelectSeq(dx_shapes, LAMBDA shape : shape.shape_type \notin {"Arrow", "Line", "Connector"})
EdgeShapes == SelectSeq(dx_shapes, LAMBDA shape : shape.shape_type \in {"Arrow", "Line", "Connector"})

VertexCellIds == {dx_xml[k].id : k \in {c \in 1..Len(dx_xml) : dx_xml[c].kind = "vertex"}}

\* C28: for shapes with pairwise distinct ids the ids of the mxCell elements
\* are pairwise distinct: "0" and "1" for the default cells, then the
\* integers from 2 on, first one for every shape that is no connector, in
\* input order, then one for every Arrow, Line or Connector, in input
\* order; and every source or target attribute of an edge cell is the id of
\* a vertex cell written for a shape that is no connector.
C28_CellIds ==
    (dx_pc = "done" /\ DistinctShapeIds) =>
        /\ Len(dx_xml) = 2 + Len(dx_shapes)
        /\ \A i, j \in 1..Len(dx_xml) : i # j => dx_xml[i].id # dx_xml[j].id
        /\ dx_xml[1].id = "0"
        /\ dx_xml[2].id = "1"
        /\ \A k \in 3..Len(dx_xml) : dx_xml[k].id = ToString(k - 1)
        /\ \A k \in 1..Len(VertexShapes) :
               /\ dx_xml[2 + k].kind = "vertex"
               /\ dx_xml[2 + k].style = get_style_for_shape(VertexShapes[k].shape_type)
               /\ dx_xml[2 + k].geometry[1] = VertexShapes[k].bounds.x
               /\ dx_xml[2 + k].geometry[2] = VertexShapes[k].bounds.y
        /\ \A k \in 1..Len(EdgeShapes) :
               LET cell == dx_xml[2 + Len(VertexShapes) + k]
               IN  /\ cell.kind = "edge"
                   /\ cell.style = get_connector_style(EdgeShapes[k].shape_type)
                   /\ cell.source # "" => cell.source \in VertexCellIds
                   /\ cell.target # "" => cell.target \in VertexCellIds

\* The diagram has two blocks and two connectors behind them in the input,
\* or a connector between two blocks that follow it in the input; an edge
\* joins two different vertex cells.
C28_Witness ==
    /\ dx_pc = "done"
    /\ DistinctShapeIds
    /\ Len(VertexShapes) >= 2
    /\ Len(EdgeShapes) >= 1
    /\ dx_shapes[1].shape_type = "Arrow"
    /\ \E k \in 1..Len(dx_xml) :
           /\ dx_xml[k].kind = "edge"
           /\ dx_xml[k].source = "2"
           /\ dx_xml[k].target = "3"
=========================================================================
